---- MODULE Spec2Model ----
(***************************************************************************)
(* Query lifecycle of the searchai pipeline: the `search` command of the   *)
(* CLI (cli/interface.py), perform_web_search (search/crew_search.py),     *)
(* process_with_gemini (reasoning/gemini_llm.py) and the persistence       *)
(* gateway (db/db_handler.py).  Strings are sequences of one-character     *)
(* strings, so that strip/lower/upper are computed, not assumed.           *)
(***************************************************************************)
EXTENDS Integers, Sequences, FiniteSets, TLC

\* ------------------------------------------------------------------ bounds
MaxCmds == 2        \* search commands run one after the other against one database
MaxResults == 2     \* results the search backend returns at most
MaxApiCalls == 1    \* direct calls of the gateway by another caller
MaxPad == 2         \* blanks before and after the text of a query
MaxChunks == 4      \* lines and line pieces a backend output is made of
MaxPieces == 5      \* pieces a response text of the LLM is made of
MaxStores == 1      \* direct calls of store_search_results
MaxTasks == 5       \* jobs handed to the worker pools of one process
MaxLoops == 2       \* event loops one process creates
MaxSessions == 2    \* sessions one process opens

\* --------------------------------------------------------------- constants
MAX_QUERY_LEN == 500

\* ----------------------------------------------------------------- strings
S_markdown == <<"m","a","r","k","d","o","w","n">>
S_pdf == <<"p","d","f">>
S_ppt == <<"p","p","t">>
S_MARKDOWN == <<"M","A","R","K","D","O","W","N">>
S_PDF == <<"P","D","F">>
S_PPT == <<"P","P","T">>
S_Pdf == <<"P","d","f">>
S_docx == <<"d","o","c","x">>

UPPER == <<"A","B","C","D","E","F","G","H","I","J","K","L","M",
           "N","O","P","Q","R","S","T","U","V","W","X","Y","Z">>
LOWER == <<"a","b","c","d","e","f","g","h","i","j","k","l","m",
           "n","o","p","q","r","s","t","u","v","w","x","y","z">>

LowerChar(ch) ==
    IF \E i \in 1..26 : UPPER[i] = ch
    THEN LOWER[CHOOSE i \in 1..26 : UPPER[i] = ch]
    ELSE ch

UpperChar(ch) ==
    IF \E i \in 1..26 : LOWER[i] = ch
    THEN UPPER[CHOOSE i \in 1..26 : LOWER[i] = ch]
    ELSE ch

lower(s) == [i \in 1..Len(s) |-> LowerChar(s[i])]
upper(s) == [i \in 1..Len(s) |-> UpperChar(s[i])]

IsSpace(ch) == ch \in {" ", "\t", "\n"}

RECURSIVE lstrip(_)
lstrip(s) ==
    IF s = <<>> THEN s
    ELSE IF IsSpace(Head(s)) THEN lstrip(Tail(s)) ELSE s

RECURSIVE rstrip(_)
rstrip(s) ==
    IF s = <<>> THEN s
    ELSE IF IsSpace(s[Len(s)]) THEN rstrip(SubSeq(s, 1, Len(s) - 1)) ELSE s

strip_mut(s) == IF s # <<>> /\ IsSpace(Head(s)) THEN Tail(s) ELSE s
strip(s) == rstrip(lstrip(s))

\* str.startswith, str.endswith, `sub in s`
startswith(s, prefix) ==
    Len(prefix) <= Len(s) /\ SubSeq(s, 1, Len(prefix)) = prefix
endswith(s, suffix) ==
    Len(suffix) <= Len(s) /\ SubSeq(s, Len(s) - Len(suffix) + 1, Len(s)) = suffix
Occurrences(s, sub) ==
    {i \in 1..(Len(s) - Len(sub) + 1) : SubSeq(s, i, i + Len(sub) - 1) = sub}
contains(s, sub) == Occurrences(s, sub) # {}

\* str.split(sep): cut at each occurrence of sep, from the left
RECURSIVE split(_, _)
split(s, sep) ==
    LET hits == Occurrences(s, sep)
    IN  IF hits = {} THEN <<s>>
        ELSE LET i == CHOOSE h \in hits : \A j \in hits : h <= j
             IN  <<SubSeq(s, 1, i - 1)>> \o split(SubSeq(s, i + Len(sep), Len(s)), sep)

\* sep.join(parts)
RECURSIVE join(_, _)
join(parts, sep) ==
    IF parts = <<>> THEN <<>>
    ELSE IF Len(parts) = 1 THEN parts[1]
    ELSE parts[1] \o sep \o join(Tail(parts), sep)

Digit(i) == <<"0","1","2","3","4","5","6","7","8","9">>[i + 1]

\* ------------------------------------------------------------------ errors
NoError == [type |-> "None", msg |-> <<>>]
Error(t, m) == [type |-> t, msg |-> m]
\* f"<prefix>: {str(e)}"
Wrap(t, prefix, e) == [type |-> t, msg |-> <<prefix>> \o e.msg]
DbError == Error("DBAPIError", <<"db">>)

\* -------------------------------------------------------------- validation
Valid(v) == [ok |-> TRUE, value |-> v, error |-> NoError]
Invalid(e) == [ok |-> FALSE, value |-> <<>>, error |-> e]

validate_query(query) ==
    IF query = <<>> \/ strip(query) = <<>>
    THEN Invalid(Error("ValidationError", <<"Search query cannot be empty">>))
    ELSE IF Len(query) > MAX_QUERY_LEN
    THEN Invalid(Error("ValidationError", <<"Search query too long (max 500 characters)">>))
    ELSE Valid(strip(query))

valid_formats == {S_markdown, S_pdf, S_ppt}

validate_format_mut(format) ==
    IF lower(format) \notin valid_formats
    THEN Invalid(Error("ValidationError", <<"Invalid format">>))
    ELSE Valid(format)

validate_format(format) ==
    IF lower(format) \notin valid_formats
    THEN Invalid(Error("ValidationError", <<"Invalid format">>))
    ELSE Valid(lower(format))

\* What the file system answers to validate_output_directory: the parent is
\* missing, the probe file cannot be created, makedirs fails, or all succeed.
DirOutcomes == {"ok", "no_parent", "not_writable", "makedirs_fails"}
OutputDir == [kind |-> "dir", qid |-> 0]

\* validate_output_directory: the probe file is created and deleted again, then
\* os.makedirs(dir_path, exist_ok=True); every failure leaves as ValidationError.
\* `files` is what exists on disk; the result carries what exists afterwards.
validate_output_directory(files, outcome) ==
    LET wrap(e) == Wrap("ValidationError", "Invalid output directory", e)
    IN  CASE outcome = "no_parent" ->
               [Invalid(wrap(Error("ValidationError",
                                   <<"Parent directory does not exist">>)))
                  EXCEPT !.value = files]
          [] outcome = "not_writable" ->
               [Invalid(wrap(Error("ValidationError", <<"Directory not writable">>)))
                  EXCEPT !.value = files]
          [] outcome = "makedirs_fails" ->
               [Invalid(wrap(Error("OSError", <<"makedirs">>))) EXCEPT !.value = files]
          [] OTHER -> Valid(files \cup {OutputDir})

\* ------------------------------------------------------------------ models
\* OutputFormat members, named by their member name; the value of a member is
\* the lowercase token.
OutputFormat == {S_MARKDOWN, S_PDF, S_PPT}
OutputFormatValue(member) == lower(member)

Statuses == {"pending", "processing", "completed", "failed"}
\* Python's None, distinct from every text
None == <<"None">>

\* dict.get(key, default)
DictGet(d, key, default) == IF key \in DOMAIN d THEN d[key] ELSE default

\* ------------------------------------------------------- persistence gateway
log_user_query_mut(uq, id, now, query_text, output_format) ==
    Append(uq, [id |-> id, query_text |-> query_text, created_at |-> now,
                output_format |-> upper(output_format), status |-> None])

\* log_user_query: the row it adds (id is the fresh uuid, now the server
\* time that created_at defaults to).
log_user_query(uq, id, now, query_text, output_format) ==
    LET format_enum == IF upper(output_format) \in OutputFormat
                       THEN upper(output_format)
                       ELSE S_MARKDOWN
    IN  Append(uq, [id |-> id, query_text |-> query_text, created_at |-> now,
                    output_format |-> format_enum, status |-> "pending"])

\* the server time of an insert made after every row of uq was created
Now(uq) == IF uq = <<>> THEN 1 ELSE uq[Len(uq)].created_at + 1

update_query_status_mut(uq, query_id, status) ==
    [i \in DOMAIN uq |-> [uq[i] EXCEPT !.status = status]]

\* UPDATE user_queries SET status = :status WHERE id = :query_id
update_query_status(uq, query_id, status) ==
    [i \in DOMAIN uq |->
        IF uq[i].id = query_id THEN [uq[i] EXCEPT !.status = status] ELSE uq[i]]

store_search_results(sr, query_id, results) ==
    sr \o [i \in 1..Len(results) |->
             [query_id |-> query_id,
              source_url |-> DictGet(results[i], "url", None),
              title |-> DictGet(results[i], "title", None),
              snippet |-> DictGet(results[i], "snippet", None)]]

\* log_generated_document: the row it adds
log_generated_document(gd, query_id, file_path, output_format, file_size) ==
    Append(gd, [query_id |-> query_id, file_path |-> file_path,
                format |-> upper(output_format), file_size |-> file_size])

\* the orders in which ORDER BY created_at DESC may deliver the rows
NewestFirst_mut(uq) ==
    {p \in [DOMAIN uq -> DOMAIN uq] :
        /\ \A i, j \in DOMAIN uq : i # j => p[i] # p[j]
        /\ \A i, j \in DOMAIN uq : i < j => uq[p[i]].created_at <= uq[p[j]].created_at}
NewestFirst(uq) ==
    {p \in [DOMAIN uq -> DOMAIN uq] :
        /\ \A i, j \in DOMAIN uq : i # j => p[i] # p[j]
        /\ \A i, j \in DOMAIN uq : i < j => uq[p[i]].created_at >= uq[p[j]].created_at}

\* get_query_history: SELECT ... ORDER BY created_at DESC LIMIT :limit; the
\* results the database may deliver (rows created at the same time come in any
\* order), none when it rejects the statement (a negative LIMIT)
get_query_history(uq, limit) ==
    IF limit < 0 THEN {}
    ELSE {[i \in 1..(IF limit < Len(uq) THEN limit ELSE Len(uq)) |-> uq[p[i]]] :
             p \in NewestFirst(uq)}

\* get_session: what a session does to a table.  Objects added to the session
\* are pending; commit makes all of them visible at once; rollback drops them.
session_add(s, row) == [s EXCEPT !.pending = Append(@, row)]
session_commit(table, s) == table \o s.pending
session_rollback_mut(table, s) == table \o s.pending
session_rollback(table, s) == table

\* the statements that the body of each gateway operation runs inside its
\* `async with get_session() as session` block, in order
Body(op) ==
    CASE op = "verify_tables"          -> <<"execute">>
      [] op = "log_user_query"         -> <<"add", "commit", "refresh">>
      [] op = "update_query_status"    -> <<"execute">>
      [] op = "store_search_results"   -> <<"add", "commit">>
      [] op = "log_generated_document" -> <<"add", "commit">>
      [] op = "get_query_history"      -> <<"execute">>

get_session_mut(op) == Body(op)
\* get_session: yield session (the body), then await session.commit()
get_session(op) == Body(op) \o <<"commit">>

session_close_mut(t) == [t EXCEPT !.todo = <<>>]
\* get_session, finally: await session.close()
session_close(t) ==
    [state |-> "none", op |-> "none", args |-> <<>>, todo |-> <<>>, view |-> <<>>,
     snap |-> <<>>, raised |-> FALSE]

\* the committed status sequence of each Query (history of its status column)
LogStatus(log, uq, query_id, status) ==
    [i \in DOMAIN log |->
        IF uq[i].id = query_id THEN Append(log[i], status) ELSE log[i]]


\* what an add or an execute of the operation does to the tables as the
\* session sees them (statusLog: the statuses written to each Query, in order)
Effect(op, view, a) ==
    CASE op = "log_user_query" ->
             [view EXCEPT
                 !.user_queries = log_user_query(@, Len(@) + 1, Now(@), a.query_text,
                                                 a.output_format),
                 !.statusLog = Append(@,
                     <<log_user_query(<<>>, 0, 0, a.query_text,
                                      a.output_format)[1].status>>)]
      [] op = "update_query_status" ->
             [view EXCEPT
                 !.user_queries = update_query_status(@, a.query_id, a.status),
                 !.statusLog = LogStatus(@, view.user_queries, a.query_id, a.status)]
      [] op = "store_search_results" ->
             [view EXCEPT
                 !.search_results = store_search_results(@, a.query_id, a.results)]
      [] OTHER -> view

\* ------------------------------------------------------------ worker pools
\* ThreadPoolExecutor(max_workers=4) of CrewSearchEngine
EXECUTOR_WORKERS == 4
\* the default executor of the event loop, which run_in_executor(None, ...)
\* uses: min(32, cpu_count + 4) workers, so at least 5
DEFAULT_WORKERS == 5
Workers(p) == IF p = "executor" THEN EXECUTOR_WORKERS ELSE DEFAULT_WORKERS
Pools == {"executor", "default"}

\* the workers of pool p that run a job
Busy(pl, p) == pl[p].running + pl[p].abandoned

\* loop.run_in_executor(p, job): the job waits for a worker of p
run_in_executor(pl, p) ==
    [pl EXCEPT ![p].queued = @ + 1, !.submitted = @ + 1]
\* a worker takes the job
worker_start(pl, p) == [pl EXCEPT ![p].queued = @ - 1, ![p].running = @ + 1]
\* the job returns or raises while its caller waits
worker_done(pl, p) == [pl EXCEPT ![p].running = @ - 1]

wait_for_timeout_mut(pl, p, started) ==
    IF started THEN [pl EXCEPT ![p].running = @ - 1, ![p].dropped = @ + 1]
    ELSE [pl EXCEPT ![p].queued = @ - 1, ![p].dropped = @ + 1]
\* asyncio.wait_for expires: the wait is cancelled; a job that a worker has
\* started goes on, a job that no worker has taken is dropped
wait_for_timeout(pl, p, started) ==
    IF started
    THEN [pl EXCEPT ![p].running = @ - 1, ![p].abandoned = @ + 1]
    ELSE [pl EXCEPT ![p].queued = @ - 1, ![p].dropped = @ + 1]
\* a job whose caller gave up returns by itself; the result is dropped
abandoned_done(pl, p) == [pl EXCEPT ![p].abandoned = @ - 1]

\* ---------------------------------------------------------- search command
\* Which handler of `search` ends the command: `except ValueError` around the
\* validation block, `except Exception` around run_until_complete, the outer
\* `except Exception`, or none.
search_handler(phase, e) ==
    IF e = NoError THEN "success"
    ELSE IF phase = "validation"
         THEN (IF e.type = "ValueError" THEN "validation_error" ELSE "unexpected_error")
         ELSE "search_failed"

typer_exit_mut(handler) == IF handler \in {"success", "unexpected_error"} THEN 0 ELSE 1
\* raise typer.Exit(1) in each handler; a normal return is exit code 0
typer_exit(handler) == IF handler = "success" THEN 0 ELSE 1

\* ------------------------------------------------------ perform_web_search
STATUS_ON_START_mut == "pending"
STATUS_ON_START == "processing"
STATUS_ON_SUCCESS == "completed"
STATUS_ON_FAILURE == "failed"

\* except Exception as e: ...; raise SearchError(str(e))
perform_web_search_reraise(e) == Error("SearchError", e.msg)

\* except (SearchError, DatabaseError): raise / except Exception: SearchError(...)
perform_web_search_outer(e) ==
    IF e.type \in {"SearchError", "DatabaseError"} THEN e
    ELSE Wrap("SearchError", "Unexpected error during search", e)

pws_next_skip(at, ok) ==
    CASE at = "init_db"        -> IF ok THEN "log_query" ELSE "done"
      [] at = "log_query"      -> IF ok THEN "search" ELSE "done"
      [] at = "set_processing" -> IF ok THEN "search" ELSE "done"
      [] at = "search"         -> IF ok THEN "store" ELSE "set_failed"
      [] at = "store"          -> IF ok THEN "set_completed" ELSE "set_failed"
      [] at = "set_completed"  -> IF ok THEN "returned" ELSE "set_failed"
      [] at = "set_failed"     -> "done"

pws_next_finally(at, ok) ==
    CASE at = "init_db"        -> IF ok THEN "log_query" ELSE "done"
      [] at = "log_query"      -> IF ok THEN "set_processing" ELSE "done"
      [] at = "set_processing" -> IF ok THEN "search" ELSE "done"
      [] at = "search"         -> IF ok THEN "store" ELSE "set_failed"
      [] at = "store"          -> IF ok THEN "set_completed" ELSE "set_failed"
      [] at = "set_completed"  -> "set_failed"
      [] at = "set_failed"     -> "done"

pws_next_swallow(at, ok) ==
    CASE at = "init_db"        -> IF ok THEN "log_query" ELSE "done"
      [] at = "log_query"      -> IF ok THEN "set_processing" ELSE "done"
      [] at = "set_processing" -> IF ok THEN "search" ELSE "done"
      [] at = "search"         -> IF ok THEN "store" ELSE "done"
      [] at = "store"          -> IF ok THEN "set_completed" ELSE "set_failed"
      [] at = "set_completed"  -> IF ok THEN "returned" ELSE "set_failed"
      [] at = "set_failed"     -> "done"

pws_next_early(at, ok) ==
    CASE at = "init_db"        -> IF ok THEN "log_query" ELSE "done"
      [] at = "log_query"      -> IF ok THEN "set_processing" ELSE "done"
      [] at = "set_processing" -> IF ok THEN "search" ELSE "done"
      [] at = "search"         -> IF ok THEN "set_completed" ELSE "set_failed"
      [] at = "store"          -> IF ok THEN "set_completed" ELSE "set_failed"
      [] at = "set_completed"  -> IF ok THEN "returned" ELSE "set_failed"
      [] at = "set_failed"     -> "done"

\* Control flow of perform_web_search: the await it reaches after the await
\* `at` returned (ok) or raised (~ok).  "returned" = `return results`,
\* "done" = the exception leaves perform_web_search.
pws_next(at, ok) ==
    CASE at = "init_db"        -> IF ok THEN "log_query" ELSE "done"
      [] at = "log_query"      -> IF ok THEN "set_processing" ELSE "done"
      [] at = "set_processing" -> IF ok THEN "search" ELSE "done"
      [] at = "search"         -> IF ok THEN "store" ELSE "set_failed"
      [] at = "store"          -> IF ok THEN "set_completed" ELSE "set_failed"
      [] at = "set_completed"  -> IF ok THEN "returned" ELSE "set_failed"
      [] at = "set_failed"     -> "done"

\* perform_web_search: the exception in flight after the database await `at`
\* returned (ok) or raised (~ok), e being the one in flight before
pws_error(at, ok, e) ==
    CASE at = "init_db" ->
             IF ok THEN NoError
             ELSE perform_web_search_outer(
                      Wrap("DatabaseError", "Database initialization failed", DbError))
      [] at = "log_query" ->
             IF ok THEN NoError
             ELSE perform_web_search_outer(
                      Wrap("DatabaseError", "Failed to log query", DbError))
      [] at = "set_processing" ->
             IF ok THEN NoError ELSE perform_web_search_outer(DbError)
      [] at = "store" -> IF ok THEN NoError ELSE DbError
      [] at = "set_completed" -> IF ok THEN e ELSE DbError
      [] at = "set_failed" ->
             IF ok THEN perform_web_search_outer(perform_web_search_reraise(e))
             ELSE perform_web_search_outer(DbError)

\* ---------------------------------------------------------- process_search
ps_next_retry(at, ok) ==
    CASE at = "returned" -> IF ok THEN "llm_init" ELSE "done"
      [] at = "llm_init" -> IF ok THEN "generate" ELSE "done"
      [] at = "generate" -> IF ok THEN "render" ELSE "generate"
      [] at = "render"   -> "done"

\* Control flow of process_search after perform_web_search returned.
ps_next(at, ok) ==
    CASE at = "returned" -> IF ok THEN "llm_init" ELSE "done"
      [] at = "llm_init" -> IF ok THEN "generate" ELSE "done"
      [] at = "generate" -> IF ok THEN "render" ELSE "done"
      [] at = "render"   -> "done"

\* process_with_gemini: except asyncio.TimeoutError / except Exception
process_with_gemini_except(e) ==
    IF e.type = "TimeoutError"
    THEN Error("LLMError", <<"LLM processing timed out after 300 seconds">>)
    ELSE Wrap("LLMError", "Unexpected error during LLM processing", e)

\* process_search: except Exception as e around the renderer call
process_search_render_except(e) == Wrap("ValueError", "Document generation failed", e)


\* ------------------------------------------------------- CrewSearchEngine
SearchOutcomes == {"ok", "timeout", "backend_error"}

S_http == <<"h","t","t","p">>
S_NA == <<"N","/","A">>
S_no_internet == <<"d","o"," ","n","o","t"," ","h","a","v","e"," ","d","i","r","e","c","t"," ","a","c","c","e","s","s"," ","t","o"," ","t","h","e"," ","i","n","t","e","r","n","e","t">>
S_no_internet_title == <<"E","r","r","o","r",":"," ","N","o"," ","I","n","t","e","r","n","e","t"," ","A","c","c","e","s","s">>
S_no_internet_summary ==
    <<"T","h","e"," ","s","e","a","r","c","h"," ","a","g","e","n","t"," ","d","o","e","s"," ","n","o","t"," ","h","a","v","e"," ","i","n","t","e","r","n","e","t"," ","a","c","c","e","s","s","."," ">>
        \o <<"P","l","e","a","s","e"," ","c","h","e","c","k"," ","y","o","u","r"," ","S","e","r","p","e","r"," ","A","P","I"," ","k","e","y"," ","c","o","n","f","i","g","u","r","a","t","i","o","n",".">>
S_no_summary == <<"N","o"," ","s","u","m","m","a","r","y"," ","a","v","a","i","l","a","b","l","e">>
S_search_results == <<"S","e","a","r","c","h"," ","R","e","s","u","l","t","s">>

NonBlank(line) == line # <<>>

parse_section_mut(section) ==
    LET parts == split(section, <<"\n">>)
        url == S_http \o strip(parts[1])
        lines == SelectSeq([i \in 1..(Len(parts) - 1) |-> strip(parts[i + 1])], NonBlank)
    IN  <<[title |-> IF lines = <<>> THEN url ELSE lines[1],
           url |-> url,
           summary |-> IF Len(lines) > 1 THEN join(Tail(lines), <<" ">>)
                       ELSE S_no_summary]>>

\* _parse_results, the body of `for section in sections[1:]`: no result when no
\* non-blank line follows the first line of the section
parse_section(section) ==
    LET parts == split(section, <<"\n">>)
        url == S_http \o strip(parts[1])
        lines == SelectSeq([i \in 1..(Len(parts) - 1) |-> strip(parts[i + 1])], NonBlank)
    IN  IF lines = <<>> THEN <<>>
        ELSE <<[title |-> lines[1],
                url |-> url,
                summary |-> IF Len(lines) > 1 THEN join(Tail(lines), <<" ">>)
                            ELSE S_no_summary]>>

RECURSIVE parse_sections(_)
parse_sections(sections) ==
    IF sections = <<>> THEN <<>>
    ELSE parse_section(Head(sections)) \o parse_sections(Tail(sections))

_parse_results_mut(raw_results) ==
    LET result_text == raw_results
    IN  IF contains(result_text, S_no_internet)
        THEN <<[title |-> S_no_internet_title, url |-> S_NA,
                summary |-> S_no_internet_summary]>>
        ELSE LET results_ == parse_sections(split(result_text, S_http))
             IN  IF results_ = <<>>
                 THEN <<[title |-> S_search_results, url |-> S_NA,
                         summary |-> result_text]>>
                 ELSE results_

\* CrewSearchEngine._parse_results on the text of the backend output
_parse_results(raw_results) ==
    LET result_text == raw_results
    IN  IF contains(result_text, S_no_internet)
        THEN <<[title |-> S_no_internet_title, url |-> S_NA,
                summary |-> S_no_internet_summary]>>
        ELSE LET results_ == parse_sections(Tail(split(result_text, S_http)))
             IN  IF results_ = <<>>
                 THEN <<[title |-> S_search_results, url |-> S_NA,
                         summary |-> result_text]>>
                 ELSE results_

\* what the search backend answers for n results found: n segments of URL line,
\* title line, summary line, blank line (the format _run_crew asks for)
Segment(i) ==
    <<"h","t","t","p",":","/","/","u">> \o <<Digit(i)>> \o <<"\n","T">> \o <<Digit(i)>> \o <<"\n","S">>
        \o <<Digit(i)>> \o <<"\n","\n">>

RECURSIVE BackendOutput(_)
BackendOutput(n) ==
    IF n = 0 THEN <<"N","o"," ","r","e","s","u","l","t","s"," ","f","o","u","n","d",".">>
    ELSE IF n = 1 THEN Segment(1)
    ELSE BackendOutput(n - 1) \o Segment(n)

\* the results parsed from the backend text for n results found
ParsedResults(n) == _parse_results(BackendOutput(n))

search_mut(query, outcome, raw_results) ==
    LET v == validate_query(query)
    IN  IF ~v.ok
        THEN Invalid(v.error)
        ELSE IF outcome = "timeout"
        THEN Invalid(Error("SearchError", <<"Search timed out after 60 seconds">>))
        ELSE IF outcome = "backend_error"
        THEN Invalid(Wrap("RuntimeError", "Search operation failed",
                          Error("Exception", <<"crew">>)))
        ELSE IF _parse_results(raw_results) = <<>>
        THEN Invalid(Error("SearchError", <<"No valid search results found">>))
        ELSE Valid(_parse_results(raw_results))

\* CrewSearchEngine.search: re-validates the query, waits for the worker with
\* SEARCH_TIMEOUT, parses raw_results; every failure leaves as SearchError.
search(query, outcome, raw_results) ==
    LET v == validate_query(query)
    IN  IF ~v.ok
        THEN Invalid(Wrap("SearchError", "Search operation failed", v.error))
        ELSE IF outcome = "timeout"
        THEN Invalid(Error("SearchError", <<"Search timed out after 60 seconds">>))
        ELSE IF outcome = "backend_error"
        THEN Invalid(Wrap("SearchError", "Search operation failed",
                          Wrap("RuntimeError", "Search operation failed",
                               Error("Exception", <<"crew">>))))
        ELSE IF _parse_results(raw_results) = <<>>
        THEN Invalid(Error("SearchError", <<"No valid search results found">>))
        ELSE Valid(_parse_results(raw_results))

\* --------------------------------------------------------- GeminiReasoner
InitOutcomes == {"ok", "backend_error", "empty"}
GenOutcomes == {"ok", "backend_error", "timeout"}

\* the backtick character (a string of the module cannot hold one)
BACKTICK == "~"
S_fence == <<BACKTICK,BACKTICK,BACKTICK>>
S_fence_markdown == <<BACKTICK,BACKTICK,BACKTICK,"m","a","r","k","d","o","w","n">>
S_Error == <<"E","r","r","o","r",":">>

\* GeminiReasoner.__init__ with _test_model: one backend call, "test"
GeminiReasoner_init(outcome) ==
    IF outcome = "ok" THEN NoError
    ELSE Wrap("ConfigurationError", "Failed to initialize Gemini",
              Wrap("LLMError", "Model connection test failed",
                   IF outcome = "empty"
                   THEN Error("LLMError", <<"Model test generated no response">>)
                   ELSE Error("Exception", <<"llm">>)))

\* GeminiReasoner.generate_content: one backend call on the default executor;
\* `text` is response.text; the timeout is that of the wait_for of the caller
generate_content(outcome, text) ==
    CASE outcome = "backend_error" ->
            Invalid(Wrap("LLMError", "Content generation failed",
                         Error("Exception", <<"llm">>)))
      [] outcome = "timeout" -> Invalid(Error("TimeoutError", <<>>))
      [] OTHER -> IF text = <<>>
                  THEN Invalid(Error("LLMError", <<"Model generated empty response">>))
                  ELSE Valid(text)

\* GeminiReasoner._create_prompt: what the prompt lists for each result
_create_prompt(search_results_) ==
    [i \in 1..Len(search_results_) |->
        [Title |-> DictGet(search_results_[i], "title", <<"U","n","t","i","t","l","e","d">>),
         URL |-> DictGet(search_results_[i], "url", <<"N","o"," ","U","R","L">>),
         Summary |-> DictGet(search_results_[i], "snippet", <<"N","o"," ","d","e","s","c","r","i","p","t","i","o","n">>)]]

\* process_with_gemini, "Remove any wrapping markdown code blocks"
remove_code_fences(text) ==
    LET c0 == strip(text)
        c1 == IF startswith(c0, S_fence_markdown)
              THEN strip(SubSeq(c0, Len(S_fence_markdown) + 1, Len(c0))) ELSE c0
        c2 == IF startswith(c1, S_fence)
              THEN strip(SubSeq(c1, Len(S_fence) + 1, Len(c1))) ELSE c1
    IN  IF endswith(c2, S_fence)
        THEN strip(SubSeq(c2, 1, Len(c2) - Len(S_fence))) ELSE c2

\* process_with_gemini: the reasoner is built before the try block, so its
\* ConfigurationError passes through; inside, every error becomes an LLMError
process_with_gemini(init, outcome, text) ==
    LET e == GeminiReasoner_init(init)
        r == generate_content(outcome, text)
    IN  IF e # NoError THEN Invalid(e)
        ELSE IF ~r.ok THEN Invalid(process_with_gemini_except(r.error))
        ELSE IF r.value = <<>>
        THEN Invalid(process_with_gemini_except(
                         Error("LLMError", <<"Generated content is empty">>)))
        ELSE Valid(remove_code_fences(r.value))

\* response texts of the LLM in a command: none, an error report, a document
\* in a code fence
ResponseTexts == {<<>>, <<"E","r","r","o","r",":"," ","x">>, <<BACKTICK,BACKTICK,BACKTICK,"m","a","r","k","d","o","w","n","\n","#"," ","d","o","c","\n",BACKTICK,BACKTICK,BACKTICK>>}

\* ------------------------------------------------------------------- state
\* One CLI process runs one command; the database and the disk outlive it.
VARIABLES
    pc,                  \* the await the command is at
    query,               \* validated query text
    format,              \* validated format
    qid,                 \* user_query.id (0: none yet)
    results,             \* search_results of process_search
    content,             \* processed_content
    err,                 \* the exception in flight / that ended the command
    exitCode,            \* -1 while running
    runs,                \* commands started so far
    user_queries,        \* table user_queries, in creation order
    search_results,      \* table search_results
    generated_documents, \* table generated_documents
    disk,                \* directories and files created
    statusLog,           \* per Query: every status committed, in order
    calls,               \* backend invocations of this command
    faults,              \* the awaits of this command that raised
    origErr,             \* the error the failing stage raised
    apiCalls,            \* direct update_query_status calls so far
    fn,                  \* the function called on its own ("none": no such call)
    arg,                 \* its argument
    ret,                 \* <<>> until it returned or raised, then <<outcome>>
    session,             \* the open database session of a gateway call
    tx,                  \* the get_session block the pipeline is in
    pool,                \* jobs handed to the worker pools of the process
    proc                 \* the process: event loops, engine, sessions, loop thread

cmdVars == <<pc, query, format, qid, results, content, err, exitCode>>
storeVars == <<user_queries, search_results, generated_documents, statusLog>>
ghostVars == <<calls, faults, origErr>>
callVars == <<fn, arg, ret, session, tx, pool, proc>>
vars == <<cmdVars, runs, storeVars, disk, ghostVars, apiCalls, callVars>>

LongQuery == [i \in 1..(MAX_QUERY_LEN + 1) |-> "a"]
QueryInputs == {<<>>, <<" ">>, <<"a">>, <<" ", "a", " ">>, LongQuery}
FormatInputs == {S_markdown, S_MARKDOWN, S_Pdf, S_ppt, S_docx}
DbOutcomes == {"ok", "fail"}

\* a freshly started process
Fresh ==
    /\ pc = "start"
    /\ query = <<>>
    /\ format = <<>>
    /\ qid = 0
    /\ results = <<>>
    /\ content = <<>>
    /\ err = NoError
    /\ exitCode = -1
    /\ calls = [search |-> 0, llm_test |-> 0, llm_generate |-> 0, render |-> 0]
    /\ faults = {}
    /\ origErr = NoError

\* no session is open
NoSession == [state |-> "none", query_id |-> 0, results |-> <<>>, pending |-> <<>>,
              base |-> 0, failed |-> "no", calls |-> 0]

\* the pipeline is in no get_session block
NoTx == [state |-> "none", op |-> "none", args |-> <<>>, todo |-> <<>>, view |-> <<>>,
         snap |-> <<>>, raised |-> FALSE]

\* worker pools with no job: jobs waiting for a worker, jobs a worker runs for
\* a caller that waits, jobs a worker runs whose caller gave up waiting
\* and jobs dropped before a worker took them
NoJobs == [queued |-> 0, running |-> 0, abandoned |-> 0, dropped |-> 0]
NoPool == [executor |-> NoJobs, default |-> NoJobs, submitted |-> 0]

\* a process that has created no event loop, no engine and no session:
\* engine and async_session are the globals of db_handler (0 is None, else the
\* number of the engine, and of the engine the factory is bound to)
NoProc == [engine |-> 0, async_session |-> 0, engines |-> 0, loops |-> 0, loop |-> 0,
           engine_loop |-> 0, sessions |-> <<>>, block |-> "none", ops |-> {},
           on_loop |-> "none", late |-> FALSE]

\* a process that has just started against an empty database and disk
Idle ==
    /\ Fresh
    /\ runs = 1
    /\ user_queries = <<>>
    /\ search_results = <<>>
    /\ generated_documents = <<>>
    /\ disk = {}
    /\ statusLog = <<>>
    /\ apiCalls = 0
    /\ session = NoSession
    /\ tx = NoTx
    /\ pool = NoPool
    /\ proc = NoProc
    /\ ret = <<>>

Init ==
    /\ Idle
    /\ fn = "none"
    /\ arg = <<>>

\* the command moves to `next` with `e` in flight; at "done" the search
\* command's handlers turn e into the exit code
Advance(next, e, phase) ==
    /\ pc' = next
    /\ err' = e
    /\ exitCode' = IF next = "done" THEN typer_exit(search_handler(phase, e))
                   ELSE exitCode

Fault(stage, e) ==
    /\ faults' = faults \cup {stage}
    /\ origErr' = IF origErr = NoError THEN e ELSE origErr

NoFault == UNCHANGED <<faults, origErr>>

\* search(): the validation block, lines 141-158 and the handlers 185-190
search_validate ==
    /\ pc = "start"
    /\ \E q \in QueryInputs, f \in FormatInputs, d \in DirOutcomes, cfgOk \in BOOLEAN :
         LET vq == validate_query(q)
             vf == validate_format(f)
             vd == validate_output_directory(disk, d)
             e == IF ~vq.ok THEN vq.error
                  ELSE IF ~vf.ok THEN vf.error
                  ELSE IF ~vd.ok THEN vd.error
                  ELSE IF ~cfgOk
                  THEN Error("ValueError", <<"Missing required environment variables">>)
                  ELSE NoError
         IN  /\ Advance(IF e = NoError THEN "init_db" ELSE "done", e, "validation")
             /\ query' = IF e = NoError THEN vq.value ELSE query
             /\ format' = IF e = NoError THEN vf.value ELSE format
             /\ disk' = IF vq.ok /\ vf.ok THEN vd.value ELSE disk
             /\ IF e = NoError THEN NoFault ELSE Fault("validate", e)
    /\ UNCHANGED <<qid, results, content, runs, storeVars, calls, apiCalls, callVars>>

\* perform_web_search: await db_handler.init_db()
pws_init_db ==
    /\ pc = "init_db"
    /\ \E o \in DbOutcomes :
         IF o = "ok"
         THEN /\ Advance(pws_next("init_db", TRUE), NoError, "pipeline")
              /\ NoFault
         ELSE /\ Advance(pws_next("init_db", FALSE),
                         perform_web_search_outer(
                             Wrap("DatabaseError", "Database initialization failed", DbError)),
                         "pipeline")
              /\ Fault("init_db", DbError)
    /\ UNCHANGED <<query, format, qid, results, content, runs, storeVars, disk,
                   calls, apiCalls, callVars>>

\* perform_web_search: await db_handler.log_user_query(query, "markdown")
pws_log_query ==
    /\ pc = "log_query"
    /\ \E o \in DbOutcomes \cup {"fail_after_commit"} :
         LET id == Len(user_queries) + 1
             committed == o # "fail"
         IN  /\ user_queries' = IF committed
                                THEN log_user_query(user_queries, id, Now(user_queries),
                                                    query, S_markdown)
                                ELSE user_queries
             /\ statusLog' = IF committed THEN Append(statusLog, <<"pending">>)
                             ELSE statusLog
             /\ IF o = "ok"
                THEN /\ Advance(pws_next("log_query", TRUE), NoError, "pipeline")
                     /\ qid' = id
                     /\ NoFault
                ELSE /\ Advance(pws_next("log_query", FALSE),
                                perform_web_search_outer(
                                    Wrap("DatabaseError", "Failed to log query", DbError)),
                                "pipeline")
                     /\ Fault("log_query", DbError)
                     /\ UNCHANGED qid
    /\ UNCHANGED <<query, format, results, content, runs, search_results,
                   generated_documents, disk, calls, apiCalls, callVars>>

\* one committed status write
WriteStatus(query_id, status) ==
    /\ user_queries' = update_query_status(user_queries, query_id, status)
    /\ statusLog' = LogStatus(statusLog, user_queries, query_id, status)

\* perform_web_search: await update_query_status(user_query.id, "processing")
pws_set_processing ==
    /\ pc = "set_processing"
    /\ \E o \in DbOutcomes :
         IF o = "ok"
         THEN /\ WriteStatus(qid, STATUS_ON_START)
              /\ Advance(pws_next("set_processing", TRUE), NoError, "pipeline")
              /\ NoFault
         ELSE /\ UNCHANGED <<user_queries, statusLog>>
              /\ Advance(pws_next("set_processing", FALSE),
                         perform_web_search_outer(DbError), "pipeline")
              /\ Fault("set_processing", DbError)
    /\ UNCHANGED <<query, format, qid, results, content, runs, search_results,
                   generated_documents, disk, calls, apiCalls, callVars>>

\* perform_web_search: results = await search_engine.search(query)
pws_search ==
    /\ pc = "search"
    /\ \E o \in SearchOutcomes, n \in 0..MaxResults :
         LET r == search(query, o, BackendOutput(n))
         IN  /\ Advance(pws_next("search", r.ok), r.error, "pipeline")
             /\ results' = r.value
             /\ IF r.ok THEN NoFault
                ELSE Fault(IF o = "timeout" THEN "search_timeout" ELSE "search", r.error)
    /\ calls' = [calls EXCEPT !.search = @ + 1]
    /\ UNCHANGED <<query, format, qid, content, runs, storeVars, disk, apiCalls, callVars>>

\* perform_web_search: await store_search_results(user_query.id, results)
pws_store ==
    /\ pc = "store"
    /\ \E o \in DbOutcomes :
         IF o = "ok"
         THEN /\ search_results' = store_search_results(search_results, qid, results)
              /\ Advance(pws_next("store", TRUE), NoError, "pipeline")
              /\ NoFault
         ELSE /\ UNCHANGED search_results
              /\ Advance(pws_next("store", FALSE), DbError, "pipeline")
              /\ Fault("store", DbError)
    /\ UNCHANGED <<query, format, qid, results, content, runs, user_queries, statusLog,
                   generated_documents, disk, calls, apiCalls, callVars>>

\* perform_web_search: await update_query_status(id, "completed"); return results
\* followed in process_search by `if not search_results: raise ValueError`
pws_set_completed ==
    /\ pc = "set_completed"
    /\ \E o \in DbOutcomes :
         IF o = "ok"
         THEN LET next == pws_next("set_completed", TRUE)
                  empty == Error("ValueError", <<"No search results found">>)
              IN  /\ WriteStatus(qid, STATUS_ON_SUCCESS)
                  /\ IF next # "returned"
                     THEN /\ Advance(next, err, "pipeline")
                          /\ NoFault
                     ELSE IF results # <<>>
                     THEN /\ Advance(ps_next("returned", TRUE), NoError, "pipeline")
                          /\ NoFault
                     ELSE /\ Advance(ps_next("returned", FALSE), empty, "pipeline")
                          /\ Fault("search", empty)
         ELSE /\ UNCHANGED <<user_queries, statusLog>>
              /\ Advance(pws_next("set_completed", FALSE), DbError, "pipeline")
              /\ Fault("set_completed", DbError)
    /\ UNCHANGED <<query, format, qid, results, content, runs, search_results,
                   generated_documents, disk, calls, apiCalls, callVars>>

\* perform_web_search, except Exception: await update_query_status(id, "failed");
\* raise SearchError(str(e))
pws_set_failed ==
    /\ pc = "set_failed"
    /\ \E o \in DbOutcomes :
         IF o = "ok"
         THEN /\ WriteStatus(qid, STATUS_ON_FAILURE)
              /\ Advance(pws_next("set_failed", TRUE),
                         perform_web_search_outer(perform_web_search_reraise(err)),
                         "pipeline")
              /\ NoFault
         ELSE /\ UNCHANGED <<user_queries, statusLog>>
              /\ Advance(pws_next("set_failed", FALSE),
                         perform_web_search_outer(DbError), "pipeline")
              /\ Fault("set_failed", DbError)
    /\ UNCHANGED <<query, format, qid, results, content, runs, search_results,
                   generated_documents, disk, calls, apiCalls, callVars>>

\* process_with_gemini: reasoner = GeminiReasoner()
pwg_init ==
    /\ pc = "llm_init"
    /\ \E o \in InitOutcomes :
         LET e == GeminiReasoner_init(o)
         IN  /\ Advance(ps_next("llm_init", e = NoError), e, "pipeline")
             /\ IF e = NoError THEN NoFault ELSE Fault("generate", e)
    /\ calls' = [calls EXCEPT !.llm_test = @ + 1]
    /\ UNCHANGED <<query, format, qid, results, content, runs, storeVars, disk, apiCalls, callVars>>

\* process_with_gemini: wait_for(generate_content(...), 300) and the check of
\* processed_content in process_search
pwg_generate ==
    /\ pc = "generate"
    /\ \E o \in GenOutcomes, t \in ResponseTexts :
         LET g == generate_content(o, t)
             r == process_with_gemini("ok", o, t)
             bad == Wrap("ValueError", "Content generation failed",
                         Error("str", <<r.value>>))
         IN  IF ~r.ok
             THEN /\ Advance(ps_next("generate", FALSE), r.error, "pipeline")
                  /\ Fault(IF o = "timeout" THEN "generate_timeout" ELSE "generate",
                           IF o = "timeout" THEN r.error ELSE g.error)
                  /\ UNCHANGED content
             ELSE IF r.value = <<>> \/ startswith(r.value, S_Error)
             THEN /\ Advance(ps_next("generate", FALSE), bad, "pipeline")
                  /\ Fault("generate", bad)
                  /\ content' = r.value
             ELSE /\ Advance(ps_next("generate", TRUE), NoError, "pipeline")
                  /\ NoFault
                  /\ content' = r.value
    /\ calls' = [calls EXCEPT !.llm_generate = @ + 1]
    /\ UNCHANGED <<query, format, qid, results, runs, storeVars, disk, apiCalls, callVars>>

\* process_search: the renderer call for the format, lines 80-103
ps_render ==
    /\ pc = "render"
    /\ IF format \in {S_markdown, S_pdf, S_ppt}
       THEN /\ calls' = [calls EXCEPT !.render = @ + 1]
            /\ \E o \in {"ok", "fail"} :
                 LET e == Error("DocumentGenerationError", <<"render">>)
                 IN  IF o = "ok"
                     THEN /\ disk' = disk \cup {[kind |-> "file", qid |-> qid]}
                          /\ Advance(ps_next("render", TRUE), NoError, "pipeline")
                          /\ NoFault
                     ELSE /\ UNCHANGED disk
                          /\ Advance(ps_next("render", FALSE),
                                     process_search_render_except(e), "pipeline")
                          /\ Fault("render", e)
       ELSE /\ Advance(ps_next("render", TRUE), NoError, "pipeline")
            /\ UNCHANGED <<calls, disk, faults, origErr>>
    /\ UNCHANGED <<query, format, qid, results, content, runs, storeVars, apiCalls, callVars>>

\* the process has exited; the next `search` command starts in a new process
new_command ==
    /\ pc = "done"
    /\ runs < MaxCmds
    /\ runs' = runs + 1
    /\ pc' = "start"
    /\ query' = <<>>
    /\ format' = <<>>
    /\ qid' = 0
    /\ results' = <<>>
    /\ content' = <<>>
    /\ err' = NoError
    /\ exitCode' = -1
    /\ calls' = [search |-> 0, llm_test |-> 0, llm_generate |-> 0, render |-> 0]
    /\ faults' = {}
    /\ origErr' = NoError
    /\ UNCHANGED <<storeVars, disk, apiCalls, callVars>>

\* db_handler.update_query_status called by any other caller of the gateway
api_update_query_status(query_id, status) ==
    /\ apiCalls < MaxApiCalls
    /\ apiCalls' = apiCalls + 1
    /\ WriteStatus(query_id, status)
    /\ UNCHANGED <<cmdVars, runs, search_results, generated_documents, disk, ghostVars, callVars>>

\* db_handler.store_search_results called by any other caller of the gateway;
\* the foreign key of query_id rejects rows of a Query that does not exist
api_store_search_results(query_id, results_) ==
    /\ apiCalls < MaxApiCalls
    /\ apiCalls' = apiCalls + 1
    /\ \E o \in DbOutcomes :
         IF o = "ok" /\ (results_ = <<>> \/ \E i \in DOMAIN user_queries :
                                               user_queries[i].id = query_id)
         THEN search_results' = store_search_results(search_results, query_id, results_)
         ELSE UNCHANGED search_results
    /\ UNCHANGED <<cmdVars, runs, user_queries, generated_documents, statusLog, disk,
                   ghostVars, callVars>>

\* db_handler.log_generated_document called by a caller of the gateway:
\* OutputFormat[output_format.upper()] raises KeyError for an unknown format
api_log_generated_document(query_id, file_path, output_format) ==
    /\ apiCalls < MaxApiCalls
    /\ apiCalls' = apiCalls + 1
    /\ \E o \in DbOutcomes :
         IF /\ o = "ok"
            /\ upper(output_format) \in OutputFormat
            /\ \E i \in DOMAIN user_queries : user_queries[i].id = query_id
         THEN generated_documents' =
                  log_generated_document(generated_documents, query_id, file_path,
                                         output_format, 0)
         ELSE UNCHANGED generated_documents
    /\ UNCHANGED <<cmdVars, runs, user_queries, search_results, statusLog, disk,
                   ghostVars, callVars>>

\* ------------------------------------------------- functions called alone
\* the called function returns or raises: `outcome` is recorded, nothing else
\* changes
Return(outcome) ==
    /\ ret = <<>>
    /\ ret' = <<outcome>>
    /\ UNCHANGED <<cmdVars, runs, storeVars, disk, ghostVars, apiCalls, fn, arg, session, tx, pool, proc>>

Blanks(n) == [i \in 1..n |-> " "]
Letters(n) == [i \in 1..n |-> "a"]

\* queries: no, few, and about MAX_QUERY_LEN letters between 0..MaxPad blanks
QueryTexts ==
    {Blanks(l) \o Letters(k) \o Blanks(r) :
        l \in 0..MaxPad, r \in 0..MaxPad,
        k \in {0, 1, 2} \cup ((MAX_QUERY_LEN - 2)..(MAX_QUERY_LEN + 1))}

\* every spelling of a token in upper and lower case letters
RECURSIVE CaseVariants(_)
CaseVariants(token) ==
    IF token = <<>> THEN {<<>>}
    ELSE {<<ch>> \o rest : ch \in {Head(token), UpperChar(Head(token))},
                             rest \in CaseVariants(Tail(token))}

FormatTexts ==
    UNION {CaseVariants(token) : token \in valid_formats}
        \cup {<<>>, S_docx, <<" ","p","d","f">>, <<"p","d","f"," ">>, <<"p","d">>, <<"p","d","f","f">>, <<"p"," ","d"," ","f">>,
               <<"m","a","r","k","d","o","w","n","\n">>, <<"m","d">>, <<"P","P","T","X">>}

call_validate_query ==
    /\ fn = "validate_query"
    /\ Return(validate_query(arg))

call_validate_format ==
    /\ fn = "validate_format"
    /\ Return(validate_format(arg))

InitValidate ==
    /\ Idle
    /\ \/ fn = "validate_query" /\ arg \in QueryTexts
       \/ fn = "validate_format" /\ arg \in FormatTexts

NextValidate == call_validate_query \/ call_validate_format

SpecValidate == InitValidate /\ [][NextValidate]_vars

\* backend outputs: up to MaxChunks pieces, the piece at position pos being a
\* URL line, a text line, a blank line, a line that mentions a URL, the line by
\* which the agent reports that it cannot search, or text without a line end
ChunkKinds == {"url", "text", "blank", "mention", "no_internet", "open"}

Chunk(kind, pos) ==
    CASE kind = "url" -> <<"h","t","t","p",":","/","/","u">> \o <<Digit(pos)>> \o <<"\n">>
      [] kind = "text" -> <<" ","t">> \o <<Digit(pos)>> \o <<" ","\n">>
      [] kind = "blank" -> <<"\n">>
      [] kind = "mention" -> <<"s","e","e"," ","h","t","t","p",":","/","/","m">> \o <<Digit(pos)>> \o <<"\n">>
      [] kind = "no_internet" -> <<"I"," ">> \o S_no_internet \o <<"\n">>
      [] OTHER -> <<"w">> \o <<Digit(pos)>>

RECURSIVE TextsOf(_)
TextsOf(n) ==
    IF n = 0 THEN {<<>>}
    ELSE {text \o Chunk(kind, n) : text \in TextsOf(n - 1), kind \in ChunkKinds}

RawTexts == UNION {TextsOf(n) : n \in 0..MaxChunks}

SearchRaws ==
    {BackendOutput(n) : n \in 0..MaxResults}
        \cup {<<>>, Chunk("url", 1), Chunk("no_internet", 1)}

call_parse_results ==
    /\ fn = "_parse_results"
    /\ Return(_parse_results(arg))

call_search ==
    /\ fn = "search"
    /\ Return(search(arg.query, arg.outcome, arg.raw))

InitSearch ==
    /\ Idle
    /\ \/ fn = "_parse_results" /\ arg \in RawTexts
       \/ /\ fn = "search"
          /\ arg \in [query : QueryInputs, outcome : SearchOutcomes, raw : SearchRaws]

NextSearch == call_parse_results \/ call_search

SpecSearch == InitSearch /\ [][NextSearch]_vars

\* response texts: up to MaxPieces pieces, each a code fence, a language tag,
\* a line end or a letter
Pieces == {S_fence, <<"m","a","r","k","d","o","w","n">>, <<"p","y">>, <<"\n">>, <<"x">>}

RECURSIVE PiecesOf(_)
PiecesOf(n) ==
    IF n = 0 THEN {<<>>}
    ELSE {text \o piece : text \in PiecesOf(n - 1), piece \in Pieces}

ContentTexts == UNION {PiecesOf(n) : n \in 0..MaxPieces}

call_process_with_gemini ==
    /\ fn = "process_with_gemini"
    /\ Return(process_with_gemini(arg.init, arg.outcome, arg.text))

InitGemini ==
    /\ Idle
    /\ fn = "process_with_gemini"
    /\ arg \in [init : {"ok"}, outcome : {"ok"}, text : ContentTexts]
              \cup [init : InitOutcomes, outcome : GenOutcomes, text : ResponseTexts]

SpecGemini == InitGemini /\ [][call_process_with_gemini]_vars

\* ------------------------------------------------------- history command
\* tables of up to n Queries as concurrent commands leave them: each row was
\* created by log_user_query at some server time and may have been updated
RECURSIVE TablesOf(_)
TablesOf(n) ==
    IF n = 0 THEN {<<>>}
    ELSE {update_query_status(log_user_query(t, n, now, <<"a">>, S_markdown), n, s) :
             t \in TablesOf(n - 1), now \in 1..MaxCmds, s \in Statuses}

HistoryTables == UNION {TablesOf(n) : n \in 0..MaxCmds}
Limits == (0 - 1)..(MaxCmds + 1)

\* show_history: queries = await db_handler.get_query_history(limit)
call_get_query_history ==
    /\ fn = "get_query_history"
    /\ \E o \in DbOutcomes :
         IF o = "ok" /\ get_query_history(user_queries, arg) # {}
         THEN \E h \in get_query_history(user_queries, arg) : Return(Valid(h))
         ELSE Return(Invalid(DbError))

InitHistory ==
    /\ Fresh
    /\ runs = 1
    /\ user_queries \in HistoryTables
    /\ statusLog = [i \in DOMAIN user_queries |->
                       IF user_queries[i].status = "pending" THEN <<"pending">>
                       ELSE <<"pending", user_queries[i].status>>]
    /\ search_results = <<>>
    /\ generated_documents = <<>>
    /\ disk = {}
    /\ apiCalls = 0
    /\ session = NoSession
    /\ tx = NoTx
    /\ pool = NoPool
    /\ proc = NoProc
    /\ ret = <<>>
    /\ fn = "get_query_history"
    /\ arg \in Limits

SpecHistory == InitHistory /\ [][call_get_query_history]_vars

\* ------------------------------------------- the gateway called directly
GwTexts == {<<"a">>}
GwFormats == {S_pdf}
\* results handed to store_search_results: none, or what search returned
GwResults == {<<>>} \cup {ParsedResults(n) : n \in 1..MaxResults}
QueryIds == {user_queries[i].id : i \in DOMAIN user_queries}
\* ids handed to the gateway: the id of the first Query and an id no Query has
GwIds == {1, MaxCmds + 1}

\* log_user_query(query_text, output_format)
gw_log_user_query(query_text, output_format) ==
    /\ session.state \notin {"open", "committed"}
    /\ Len(user_queries) < MaxCmds
    /\ \E o \in DbOutcomes :
         IF o = "ok"
         THEN /\ user_queries' = log_user_query(user_queries, Len(user_queries) + 1,
                                                Now(user_queries), query_text,
                                                output_format)
              /\ statusLog' = Append(statusLog, <<"pending">>)
         ELSE /\ UNCHANGED <<user_queries, statusLog>>
    /\ UNCHANGED <<cmdVars, runs, search_results, generated_documents, disk, ghostVars,
                   apiCalls, callVars>>

\* update_query_status(query_id, status): one UPDATE in a session of its own
gw_update_query_status(query_id, status) ==
    /\ session.state \notin {"open", "committed"}
    /\ apiCalls < MaxApiCalls
    /\ apiCalls' = apiCalls + 1
    /\ \E o \in DbOutcomes :
         IF o = "ok"
         THEN /\ WriteStatus(query_id, status)
              /\ ret' = <<"ok">>
         ELSE /\ UNCHANGED <<user_queries, statusLog>>
              /\ ret' = <<"raised">>
    /\ fn' = "update_query_status"
    /\ arg' = [query_id |-> query_id, status |-> status]
    /\ UNCHANGED <<cmdVars, runs, search_results, generated_documents, disk, ghostVars,
                   session, tx, pool, proc>>

\* store_search_results(query_id, results): async with get_session() as session
ssr_begin(query_id, results_) ==
    /\ session.state \notin {"open", "committed"}
    /\ session.calls < MaxStores
    /\ session' = [state |-> "open", query_id |-> query_id, results |-> results_,
                   pending |-> <<>>, base |-> Len(search_results), failed |-> "no",
                   calls |-> session.calls + 1]
    /\ UNCHANGED <<cmdVars, runs, storeVars, disk, ghostVars, apiCalls, fn, arg, ret, tx, pool, proc>>

\* store_search_results: one turn of the loop, SearchResult(...); session.add;
\* an exception leaves through get_session: rollback, close, raise
ssr_add ==
    /\ session.state = "open"
    /\ Len(session.pending) < Len(session.results)
    /\ \E o \in DbOutcomes :
         LET result == session.results[Len(session.pending) + 1]
             row == store_search_results(<<>>, session.query_id, <<result>>)[1]
         IN  IF o = "ok"
             THEN /\ session' = session_add(session, row)
                  /\ UNCHANGED search_results
             ELSE /\ search_results' = session_rollback(search_results, session)
                  /\ session' = [session EXCEPT !.state = "rolled_back",
                                                !.pending = <<>>, !.failed = "add"]
    /\ UNCHANGED <<cmdVars, runs, user_queries, generated_documents, statusLog, disk,
                   ghostVars, apiCalls, fn, arg, ret, tx, pool, proc>>

\* store_search_results: await session.commit(); the foreign key of query_id
\* makes the commit fail when no Query has that id
ssr_commit ==
    /\ session.state = "open"
    /\ Len(session.pending) = Len(session.results)
    /\ \E o \in DbOutcomes :
         IF o = "ok" /\ (session.pending = <<>> \/ session.query_id \in QueryIds)
         THEN /\ search_results' = session_commit(search_results, session)
              /\ session' = [session EXCEPT !.state = "committed", !.pending = <<>>]
         ELSE /\ search_results' = session_rollback(search_results, session)
              /\ session' = [session EXCEPT !.state = "rolled_back",
                                            !.pending = <<>>, !.failed = "commit"]
    /\ UNCHANGED <<cmdVars, runs, user_queries, generated_documents, statusLog, disk,
                   ghostVars, apiCalls, fn, arg, ret, tx, pool, proc>>

\* get_session after the body: await session.commit() once more, then close
ssr_exit ==
    /\ session.state = "committed"
    /\ \E o \in DbOutcomes :
         IF o = "ok"
         THEN /\ session' = [session EXCEPT !.state = "closed"]
              /\ UNCHANGED search_results
         ELSE /\ search_results' = session_rollback(search_results, session)
              /\ session' = [session EXCEPT !.state = "rolled_back", !.failed = "exit"]
    /\ UNCHANGED <<cmdVars, runs, user_queries, generated_documents, statusLog, disk,
                   ghostVars, apiCalls, fn, arg, ret, tx, pool, proc>>

NextGateway ==
    \/ \E t \in GwTexts, f \in GwFormats : gw_log_user_query(t, f)
    \/ \E id \in GwIds, s \in Statuses : gw_update_query_status(id, s)
    \/ \E id \in GwIds, r \in GwResults : ssr_begin(id, r)
    \/ ssr_add
    \/ ssr_commit
    \/ ssr_exit

SpecGateway == Init /\ [][NextGateway]_vars

Pipeline ==
    \/ search_validate
    \/ pws_init_db
    \/ pws_log_query
    \/ pws_set_processing
    \/ pws_search
    \/ pws_store
    \/ pws_set_completed
    \/ pws_set_failed
    \/ pwg_init
    \/ pwg_generate
    \/ ps_render

Next == Pipeline \/ new_command

Spec == Init /\ [][Next]_vars

\* one search command together with direct callers of the gateway
NextApi ==
    \/ Pipeline
    \/ \E id \in 1..(MaxCmds + 1), s \in Statuses : api_update_query_status(id, s)
    \/ \E id \in GwIds : api_store_search_results(id, ParsedResults(1))
    \/ \E id \in GwIds, f \in {S_pdf, S_docx} :
          api_log_generated_document(id, <<"f">>, f)

SpecApi == Init /\ [][NextApi]_vars

\* ------------------------------------------- one command, step by step
\* The search command with every database await of perform_web_search taken
\* apart into the steps of its get_session block, and every wait on a worker
\* into the hand-over of the job, its return and the expiry of the wait.
DbAwaits == {"init_db", "log_query", "set_processing", "store", "set_completed",
             "set_failed"}

\* the gateway operation that perform_web_search awaits at `at`
OpAt(at) ==
    CASE at = "init_db" -> "verify_tables"
      [] at = "log_query" -> "log_user_query"
      [] at = "store" -> "store_search_results"
      [] OTHER -> "update_query_status"

ArgsAt(at) ==
    CASE at = "log_query" -> [query_text |-> query, output_format |-> S_markdown]
      [] at = "set_processing" -> [query_id |-> qid, status |-> STATUS_ON_START]
      [] at = "store" -> [query_id |-> qid, results |-> results]
      [] at = "set_completed" -> [query_id |-> qid, status |-> STATUS_ON_SUCCESS]
      [] at = "set_failed" -> [query_id |-> qid, status |-> STATUS_ON_FAILURE]
      [] OTHER -> <<>>

\* the tables as every reader sees them
Committed ==
    [user_queries |-> user_queries, search_results |-> search_results,
     generated_documents |-> generated_documents, statusLog |-> statusLog]

\* async with get_session() as session: session = async_session()
gs_enter ==
    /\ pc \in DbAwaits
    /\ tx.state = "none"
    /\ tx' = [state |-> "open", op |-> OpAt(pc), args |-> ArgsAt(pc),
              todo |-> get_session(OpAt(pc)), view |-> Committed, snap |-> Committed,
              raised |-> FALSE]
    /\ UNCHANGED <<cmdVars, runs, storeVars, disk, ghostVars, apiCalls, fn, arg, ret,
                   session, pool, proc>>

\* the next statement of the block: session.add and session.execute change
\* what the session sees, session.commit makes it what every reader sees; a
\* statement that raises leaves through `except`: await session.rollback()
gs_statement ==
    /\ tx.state = "open"
    /\ tx.todo # <<>>
    /\ \E o \in DbOutcomes :
         LET stmt == Head(tx.todo)
         IN  IF o = "ok" \/ stmt = "add"
             THEN /\ tx' = [tx EXCEPT !.todo = Tail(@),
                                      !.view = IF stmt \in {"add", "execute"}
                                               THEN Effect(tx.op, @, tx.args) ELSE @]
                  /\ IF stmt = "commit"
                     THEN /\ user_queries' = tx.view.user_queries
                          /\ search_results' = tx.view.search_results
                          /\ generated_documents' = tx.view.generated_documents
                          /\ statusLog' = tx.view.statusLog
                     ELSE UNCHANGED storeVars
             ELSE /\ tx' = [tx EXCEPT !.state = "raised", !.todo = <<>>,
                                      !.view = Committed, !.raised = TRUE]
                  /\ UNCHANGED storeVars
    /\ UNCHANGED <<cmdVars, runs, disk, ghostVars, apiCalls, fn, arg, ret, session, pool, proc>>

\* the block is left: await session.close(), and perform_web_search goes on
\* after the await, or to the handler of the exception
gs_close ==
    /\ pc \in DbAwaits
    /\ \/ tx.state = "open" /\ tx.todo = <<>>
       \/ tx.state = "raised"
    /\ tx' = session_close(tx)
    /\ LET ok == ~tx.raised
           next == pws_next(pc, ok)
           empty == Error("ValueError", <<"No search results found">>)
       IN  /\ qid' = IF pc = "log_query" /\ ok
                      THEN user_queries[Len(user_queries)].id ELSE qid
           /\ IF next # "returned"
              THEN Advance(next, pws_error(pc, ok, err), "pipeline")
              ELSE IF results # <<>>
              THEN Advance(ps_next("returned", TRUE), NoError, "pipeline")
              ELSE Advance(ps_next("returned", FALSE), empty, "pipeline")
    /\ UNCHANGED <<query, format, results, content, runs, storeVars, disk, ghostVars,
                   apiCalls, fn, arg, ret, session, pool, proc>>

\* a worker of pool p takes a waiting job
pool_start(p) ==
    /\ pool[p].queued > 0
    /\ Busy(pool, p) < Workers(p)
    /\ pool' = worker_start(pool, p)
    /\ UNCHANGED <<cmdVars, runs, storeVars, disk, ghostVars, apiCalls, fn, arg, ret,
                   session, tx, proc>>

\* a job that nobody waits for any more returns by itself
pool_abandoned_done(p) ==
    /\ pool[p].abandoned > 0
    /\ pool' = abandoned_done(pool, p)
    /\ UNCHANGED <<cmdVars, runs, storeVars, disk, ghostVars, apiCalls, fn, arg, ret,
                   session, tx, proc>>

\* CrewSearchEngine.search: loop.run_in_executor(self.executor, self._run_crew, ...)
search_submit ==
    /\ pc = "search"
    /\ pc' = "search_wait"
    /\ pool' = run_in_executor(pool, "executor")
    /\ calls' = [calls EXCEPT !.search = @ + 1]
    /\ UNCHANGED <<query, format, qid, results, content, err, exitCode, runs, storeVars,
                   disk, faults, origErr, apiCalls, fn, arg, ret, session, tx, proc>>

\* CrewSearchEngine.search: the worker returned or raised within SEARCH_TIMEOUT
search_result ==
    /\ pc = "search_wait"
    /\ pool.executor.running > 0
    /\ pool' = worker_done(pool, "executor")
    /\ \E o \in SearchOutcomes \ {"timeout"}, n \in 0..MaxResults :
         LET r == search(query, o, BackendOutput(n))
         IN  /\ Advance(pws_next("search", r.ok), r.error, "pipeline")
             /\ results' = r.value
    /\ UNCHANGED <<query, format, qid, content, runs, storeVars, disk, ghostVars,
                   apiCalls, fn, arg, ret, session, tx, proc>>

\* CrewSearchEngine.search: asyncio.wait_for expired, except asyncio.TimeoutError
search_timeout ==
    /\ pc = "search_wait"
    /\ pool' = wait_for_timeout(pool, "executor", pool.executor.running > 0)
    /\ LET r == search(query, "timeout", <<>>)
       IN  /\ Advance(pws_next("search", r.ok), r.error, "pipeline")
           /\ results' = r.value
    /\ UNCHANGED <<query, format, qid, content, runs, storeVars, disk, ghostVars,
                   apiCalls, fn, arg, ret, session, tx, proc>>

\* GeminiReasoner.generate_content: loop.run_in_executor(None, ...)
generate_submit ==
    /\ pc = "generate"
    /\ pc' = "generate_wait"
    /\ pool' = run_in_executor(pool, "default")
    /\ calls' = [calls EXCEPT !.llm_generate = @ + 1]
    /\ UNCHANGED <<query, format, qid, results, content, err, exitCode, runs, storeVars,
                   disk, faults, origErr, apiCalls, fn, arg, ret, session, tx, proc>>

\* process_with_gemini: generate_content returned or raised within the 300
\* seconds, then the check of processed_content in process_search
generate_result ==
    /\ pc = "generate_wait"
    /\ pool.default.running > 0
    /\ pool' = worker_done(pool, "default")
    /\ \E o \in GenOutcomes \ {"timeout"}, t \in ResponseTexts :
         LET r == process_with_gemini("ok", o, t)
             bad == Wrap("ValueError", "Content generation failed",
                         Error("str", <<r.value>>))
         IN  IF ~r.ok
             THEN /\ Advance(ps_next("generate", FALSE), r.error, "pipeline")
                  /\ UNCHANGED content
             ELSE IF r.value = <<>> \/ startswith(r.value, S_Error)
             THEN /\ Advance(ps_next("generate", FALSE), bad, "pipeline")
                  /\ content' = r.value
             ELSE /\ Advance(ps_next("generate", TRUE), NoError, "pipeline")
                  /\ content' = r.value
    /\ UNCHANGED <<query, format, qid, results, runs, storeVars, disk, ghostVars,
                   apiCalls, fn, arg, ret, session, tx, proc>>

\* process_with_gemini: asyncio.wait_for(..., timeout=300) expired
generate_timeout ==
    /\ pc = "generate_wait"
    /\ pool' = wait_for_timeout(pool, "default", pool.default.running > 0)
    /\ Advance(ps_next("generate", FALSE),
               process_with_gemini("ok", "timeout", <<>>).error, "pipeline")
    /\ UNCHANGED <<query, format, qid, results, content, runs, storeVars, disk,
                   ghostVars, apiCalls, fn, arg, ret, session, tx, proc>>

NextSteps ==
    \/ search_validate
    \/ gs_enter
    \/ gs_statement
    \/ gs_close
    \/ search_submit
    \/ search_result
    \/ search_timeout
    \/ pwg_init
    \/ generate_submit
    \/ generate_result
    \/ generate_timeout
    \/ ps_render
    \/ \E p \in Pools : pool_start(p)
    \/ \E p \in Pools : pool_abandoned_done(p)

SpecSteps == Init /\ [][NextSteps]_vars

\* --------------------------------------- concurrent callers in one process
\* Up to MaxTasks coroutines of one event loop call search and
\* generate_content side by side.
\* a caller reaches run_in_executor: p is "executor" in search, "default" in
\* generate_content
pool_submit(p) ==
    /\ pool.submitted < MaxTasks
    /\ pool' = run_in_executor(pool, p)
    /\ UNCHANGED <<cmdVars, runs, storeVars, disk, ghostVars, apiCalls, fn, arg, ret,
                   session, tx, proc>>

\* a job returns or raises while its caller waits
pool_done(p) ==
    /\ pool[p].running > 0
    /\ pool' = worker_done(pool, p)
    /\ UNCHANGED <<cmdVars, runs, storeVars, disk, ghostVars, apiCalls, fn, arg, ret,
                   session, tx, proc>>

\* the wait of a caller expires
pool_timeout(p, started) ==
    /\ IF started THEN pool[p].running > 0 ELSE pool[p].queued > 0
    /\ pool' = wait_for_timeout(pool, p, started)
    /\ UNCHANGED <<cmdVars, runs, storeVars, disk, ghostVars, apiCalls, fn, arg, ret,
                   session, tx, proc>>

NextPool ==
    \/ \E p \in Pools : pool_submit(p)
    \/ \E p \in Pools : pool_start(p)
    \/ \E p \in Pools : pool_done(p)
    \/ \E p \in Pools, started \in BOOLEAN : pool_timeout(p, started)
    \/ \E p \in Pools : pool_abandoned_done(p)

SpecPool == Init /\ [][NextPool]_vars

\* ------------------------------------------- format names at the gateway
\* OutputFormat[output_format.upper()]: the member of that name, or KeyError
format_enum_mut(output_format) ==
    IF upper(output_format) \in OutputFormat
    THEN Valid(upper(output_format))
    ELSE Valid(S_MARKDOWN)

format_enum(output_format) ==
    IF upper(output_format) \in OutputFormat
    THEN Valid(upper(output_format))
    ELSE Invalid(Error("KeyError", upper(output_format)))

\* await log_user_query("a", arg), by a caller that then logs a document
\* under the same format name; ret collects what the calls raised
call_log_user_query ==
    /\ fn = "log_user_query"
    /\ ret = <<>>
    /\ fn' = "log_generated_document"
    /\ \E o \in DbOutcomes :
         IF o = "ok"
         THEN /\ user_queries' = log_user_query(user_queries, Len(user_queries) + 1,
                                                Now(user_queries), <<"a">>, arg)
              /\ statusLog' = Append(statusLog, <<"pending">>)
              /\ ret' = <<NoError>>
         ELSE /\ UNCHANGED <<user_queries, statusLog>>
              /\ ret' = <<DbError>>
    /\ UNCHANGED <<cmdVars, runs, search_results, generated_documents, disk, ghostVars,
                   apiCalls, arg, session, tx, pool, proc>>

\* await log_generated_document(1, "f", arg): the enum lookup comes before the
\* session; the foreign key rejects a document of a Query that was not stored
call_log_generated_document ==
    /\ fn = "log_generated_document"
    /\ Len(ret) = 1
    /\ LET f == format_enum(arg)
       IN  IF ~f.ok
           THEN /\ ret' = Append(ret, f.error)
                /\ UNCHANGED generated_documents
           ELSE \E o \in DbOutcomes :
                  IF o = "ok" /\ user_queries # <<>>
                  THEN /\ generated_documents' =
                             log_generated_document(generated_documents, 1, <<"f">>, arg, 0)
                       /\ ret' = Append(ret, NoError)
                  ELSE /\ UNCHANGED generated_documents
                       /\ ret' = Append(ret, DbError)
    /\ UNCHANGED <<cmdVars, runs, user_queries, search_results, statusLog, disk,
                   ghostVars, apiCalls, fn, arg, session, tx, pool, proc>>

InitFormat ==
    /\ Idle
    /\ fn = "log_user_query"
    /\ arg \in FormatTexts

NextFormat == call_log_user_query \/ call_log_generated_document

SpecFormat == InitFormat /\ [][NextFormat]_vars

\* ------------------------------------------- the process and its event loops
\* db_handler.setup_db: create_async_engine and sessionmaker, once; `outcome`
\* is "fail" when create_async_engine raises (POSTGRES_URI unset or malformed)
setup_db_mut(p, outcome) ==
    IF outcome = "ok"
    THEN [p EXCEPT !.engine = p.engines + 1, !.engines = @ + 1,
                   !.async_session = p.engines + 1, !.engine_loop = p.loop]
    ELSE p

setup_db(p, outcome) ==
    IF p.engine = 0 /\ outcome = "ok"
    THEN [p EXCEPT !.engine = p.engines + 1, !.engines = @ + 1,
                   !.async_session = p.engines + 1, !.engine_loop = p.loop]
    ELSE p

\* a database operation through the engine, on the running loop
db_operation(p) ==
    [p EXCEPT !.ops = @ \cup {[loop |-> p.loop, engine_loop |-> p.engine_loop]}]

\* get_session: where the block goes after the step `at` ended with `o`
\* ("ok", "fail": an Exception, "base": a BaseException such as CancelledError)
get_session_next_mut(at, o) ==
    CASE at = "body" /\ o = "ok" -> "commit"
      [] at = "body" /\ o = "fail" -> "rollback"
      [] at = "commit" /\ o = "fail" -> "rollback"
      [] at = "rollback" /\ o # "ok" -> "none"
      [] at = "close" -> "none"
      [] OTHER -> "close"

get_session_next(at, o) ==
    CASE at = "body" /\ o = "ok" -> "commit"
      [] at = "body" /\ o = "fail" -> "rollback"
      [] at = "commit" /\ o = "fail" -> "rollback"
      [] at = "close" -> "none"
      [] OTHER -> "close"

SessionOutcomes == {"ok", "fail", "base"}

\* loop = asyncio.new_event_loop(); asyncio.set_event_loop(loop): in main(),
\* and again in the command that cli_app() runs
new_event_loop ==
    /\ proc.loop = 0
    /\ proc.loops < MaxLoops
    /\ proc' = [proc EXCEPT !.loops = @ + 1, !.loop = proc.loops + 1]
    /\ UNCHANGED <<cmdVars, runs, storeVars, disk, ghostVars, apiCalls, fn, arg, ret,
                   session, tx, pool>>

\* finally: loop.close(), after run_until_complete returned or raised
loop_close ==
    /\ proc.loop # 0
    /\ proc.block = "none"
    /\ proc' = [proc EXCEPT !.loop = 0]
    /\ UNCHANGED <<cmdVars, runs, storeVars, disk, ghostVars, apiCalls, fn, arg, ret,
                   session, tx, pool>>

\* db_handler.setup_db()
call_setup_db ==
    /\ proc.loop # 0
    /\ proc.block = "none"
    /\ \E o \in DbOutcomes : proc' = setup_db(proc, o)
    /\ UNCHANGED <<cmdVars, runs, storeVars, disk, ghostVars, apiCalls, fn, arg, ret,
                   session, tx, pool>>

\* db_handler.init_db() up to verify_tables: setup_db(), then
\* async with engine.begin() as conn: await conn.run_sync(create_all);
\* engine.begin raises AttributeError while engine is None
call_init_db ==
    /\ proc.loop # 0
    /\ proc.block = "none"
    /\ \E o \in DbOutcomes :
         LET p == setup_db(proc, o)
         IN  proc' = IF p.engine = 0 THEN p ELSE db_operation(p)
    /\ UNCHANGED <<cmdVars, runs, storeVars, disk, ghostVars, apiCalls, fn, arg, ret,
                   session, tx, pool>>

\* async with get_session(): if async_session is None: setup_db();
\* session = async_session(), which raises TypeError while the factory is None
get_session_enter ==
    /\ proc.loop # 0
    /\ proc.block = "none"
    /\ Len(proc.sessions) < MaxSessions
    /\ \E o \in DbOutcomes :
         LET p == IF proc.async_session = 0 THEN setup_db(proc, o) ELSE proc
         IN  proc' = IF p.async_session = 0 THEN p
                     ELSE [p EXCEPT !.block = "body",
                                    !.sessions = Append(@, [factory |-> p.async_session,
                                                            loop |-> p.loop,
                                                            raised |-> {},
                                                            closes |-> 0])]
    /\ UNCHANGED <<cmdVars, runs, storeVars, disk, ghostVars, apiCalls, fn, arg, ret,
                   session, tx, pool>>

\* the statements of the block, await session.commit(), await
\* session.rollback() and await session.close(), each on the running loop
get_session_step ==
    /\ proc.block # "none"
    /\ \E o \in SessionOutcomes :
         LET n == Len(proc.sessions)
             p == db_operation(proc)
         IN  proc' = [p EXCEPT !.block = get_session_next(proc.block, o),
                               !.sessions[n].raised =
                                   IF o = "ok" THEN @ ELSE @ \cup {proc.block},
                               !.sessions[n].closes =
                                   IF proc.block = "close" THEN @ + 1 ELSE @]
    /\ UNCHANGED <<cmdVars, runs, storeVars, disk, ghostVars, apiCalls, fn, arg, ret,
                   session, tx, pool>>

NextProcess ==
    \/ new_event_loop
    \/ loop_close
    \/ call_setup_db
    \/ call_init_db
    \/ get_session_enter
    \/ get_session_step

SpecProcess == Init /\ [][NextProcess]_vars

\* ------------------------------------- one command on its event loop thread
\* The search command with the waits on the workers taken apart as above, the
\* construction of the LLM client taken apart into the call of the backend
\* and its return, and the exceptions that are no Exception.
\* process_with_gemini: reasoner = GeminiReasoner(): __init__ calls
\* _test_model, which calls self.model.generate_content("test") in the thread
\* of the event loop, before any wait_for exists
pwg_construct ==
    /\ pc = "llm_init"
    /\ pc' = "llm_test"
    /\ proc' = [proc EXCEPT !.on_loop = "llm_test"]
    /\ calls' = [calls EXCEPT !.llm_test = @ + 1]
    /\ UNCHANGED <<query, format, qid, results, content, err, exitCode, runs, storeVars,
                   disk, faults, origErr, apiCalls, fn, arg, ret, session, tx, pool>>

\* 300 seconds have passed since the test call began and it has not returned:
\* no timer runs, the loop thread stays inside the call
llm_test_overrun ==
    /\ pc = "llm_test"
    /\ ~proc.late
    /\ proc' = [proc EXCEPT !.late = TRUE]
    /\ UNCHANGED <<cmdVars, runs, storeVars, disk, ghostVars, apiCalls, fn, arg, ret,
                   session, tx, pool>>

\* the test call returned or raised: GeminiReasoner.__init__ ends
pwg_test_return ==
    /\ pc = "llm_test"
    /\ proc' = [proc EXCEPT !.on_loop = "none", !.late = FALSE]
    /\ \E o \in InitOutcomes :
         LET e == GeminiReasoner_init(o)
         IN  /\ Advance(ps_next("llm_init", e = NoError), e, "pipeline")
             /\ IF e = NoError THEN NoFault ELSE Fault("generate", e)
    /\ UNCHANGED <<query, format, qid, results, content, runs, storeVars, disk, calls,
                   apiCalls, fn, arg, ret, session, tx, pool>>

\* a KeyboardInterrupt, or the cancellation of the task, reaches the command
\* while it awaits the search: a BaseException, which no `except Exception`
\* of search, perform_web_search, process_search and the command catches; the
\* command ends with a nonzero exit code and the worker is left to itself
search_interrupt ==
    /\ pc = "search_wait"
    /\ pool' = wait_for_timeout(pool, "executor", pool.executor.running > 0)
    /\ \E e \in {"KeyboardInterrupt", "CancelledError"} :
         /\ pc' = "done"
         /\ err' = Error(e, <<>>)
         /\ exitCode' = 1
    /\ UNCHANGED <<query, format, qid, results, content, runs, storeVars, disk,
                   ghostVars, apiCalls, fn, arg, ret, session, tx, proc>>

NextLoop ==
    \/ search_validate
    \/ pws_init_db
    \/ pws_log_query
    \/ pws_set_processing
    \/ search_submit
    \/ search_result
    \/ search_timeout
    \/ search_interrupt
    \/ pws_store
    \/ pws_set_completed
    \/ pws_set_failed
    \/ pwg_construct
    \/ llm_test_overrun
    \/ pwg_test_return
    \/ generate_submit
    \/ generate_result
    \/ generate_timeout
    \/ ps_render
    \/ \E p \in Pools : pool_start(p)
    \/ \E p \in Pools : pool_abandoned_done(p)

SpecLoop == Init /\ [][NextLoop]_vars

\* ------------------------------------------------------------------ claims
StatusOf(id) == user_queries[id].status
IsPrefix(s, t) == Len(s) <= Len(t) /\ \A i \in 1..Len(s) : s[i] = t[i]
Terminal == {"completed", "failed"}
StageFaults == {"search", "search_timeout", "generate", "generate_timeout", "render"}
RowsOf(id) == {i \in DOMAIN search_results : search_results[i].query_id = id}
DocsOf(id) == {i \in DOMAIN generated_documents : generated_documents[i].query_id = id}
Rendered(id) == [kind |-> "file", qid |-> id] \in disk

C2_LateFailureMarksFailed ==
    (pc = "done" /\ faults \cap {"generate", "generate_timeout", "render"} # {})
        => (StatusOf(qid) = "failed" /\ err # NoError)

\* C3: a Query has status completed only if a document was rendered for it.
C3_CompletedImpliesRendered ==
    \A i \in DOMAIN user_queries : StatusOf(i) = "completed" => Rendered(i)

C5_TimeoutMarksFailed ==
    (pc = "done" /\ "search_timeout" \in faults)
        => /\ err.type = "SearchError"
           /\ StatusOf(qid) = "failed"
           /\ RowsOf(qid) = {}
           /\ exitCode = 1

\* C5, amended: after a search timeout the command ends with a SearchError, no
\* SearchResult row of the query and exit code 1; the status is failed when the
\* database accepted that write and stays processing when it did not.
C5_TimeoutOutcome ==
    (pc = "done" /\ "search_timeout" \in faults)
        => /\ err.type = "SearchError"
           /\ \/ StatusOf(qid) = "failed"
              \/ ("set_failed" \in faults /\ StatusOf(qid) = "processing")
           /\ RowsOf(qid) = {}
           /\ exitCode = 1

C5_Witness ==
    /\ pc = "done"
    /\ "search_timeout" \in faults
    /\ StatusOf(qid) = "failed"
    /\ exitCode = 1

\* C6: after a command whose stages all succeeded, exactly one
\* GeneratedDocument row references the query and carries the requested format.
C6_OneDocumentAfterSuccess ==
    (pc = "done" /\ exitCode = 0)
        => /\ Cardinality(DocsOf(qid)) = 1
           /\ \A i \in DocsOf(qid) :
                 OutputFormatValue(generated_documents[i].format) = format

\* C7: the Query row of a command stores the format the command was given.
C7_StoredFormatIsRequested ==
    qid # 0 => OutputFormatValue(user_queries[qid].output_format) = format

\* C8: when the search, generation or render stage failed (and no database
\* write did), the error that ends the command is the error that stage raised.
C8_ErrorUnmodified ==
    (pc = "done" /\ faults # {} /\ faults \subseteq StageFaults) => err = origErr

\* C9 as stated: each of the search backend, the LLM backend and the renderer is
\* invoked at most once in a command.
C9_EachBackendOnce ==
    /\ calls.search <= 1
    /\ calls.llm_test + calls.llm_generate <= 1
    /\ calls.render <= 1

\* C9, amended: nothing is retried: the search backend, the renderer, the LLM
\* connection test and the LLM generation call are each made at most once in a
\* command (so the LLM backend at most twice), and after a failure of the
\* command no backend is invoked.
C9_NoRetries ==
    [][/\ calls'.search <= 1
       /\ calls'.llm_test <= 1
       /\ calls'.llm_generate <= 1
       /\ calls'.render <= 1
       /\ (faults # {} /\ runs' = runs) => calls' = calls]_vars

C9_Witness ==
    /\ pc = "done"
    /\ calls.llm_test = 1
    /\ calls.llm_generate = 1
    /\ "generate" \in faults

\* C10: a finished command has exit code 0 when nothing failed (and then the
\* document was rendered) and exit code 1 when validation or any await of the
\* pipeline failed; a running command has no exit code.
C10_ExitCode ==
    /\ pc # "done" => exitCode = -1
    /\ pc = "done" =>
          /\ exitCode \in {0, 1}
          /\ exitCode = 0 <=> (faults = {} /\ err = NoError)
          /\ exitCode = 0 => (Rendered(qid) /\ StatusOf(qid) = "completed")

C10_Witness ==
    /\ pc = "done"
    /\ exitCode = 1
    /\ faults = {"validate"}
    /\ err.type = "ValidationError"

\* C11: a search command that ends in the validation block (query, format,
\* output directory, configuration) has created no Query row, written no
\* status, called no backend and created nothing on disk.
C11_ValidationFailureMutatesNothing ==
    [][(pc = "start" /\ pc' = "done") =>
          /\ UNCHANGED <<user_queries, search_results, generated_documents, statusLog>>
          /\ calls' = calls
          /\ disk' = disk]_vars

\* C12: validate_query returns the trimmed text when the trimmed text has 1 to
\* 500 characters, and raises ValidationError when the text is empty, blank, or
\* longer than 500 characters after trimming.
C12_ValidateQueryByTrimmedLength ==
    (fn = "validate_query" /\ ret # <<>>) =>
        LET trimmed == strip(arg)
            r == ret[1]
        IN  IF Len(trimmed) \in 1..MAX_QUERY_LEN
            THEN r.ok /\ r.value = trimmed
            ELSE ~r.ok /\ r.error.type = "ValidationError"

\* C13: validate_format returns the lowercase token for every upper/lower case
\* spelling of markdown, pdf and ppt, raises ValidationError for every other
\* text, and whatever it returns is one of the three lowercase tokens.
C13_ValidateFormatCanonical ==
    (fn = "validate_format" /\ ret # <<>>) =>
        LET r == ret[1]
        IN  /\ \A token \in {S_markdown, S_pdf, S_ppt} :
                  arg \in CaseVariants(token) => (r.ok /\ r.value = token)
            /\ (\A token \in {S_markdown, S_pdf, S_ppt} : arg \notin CaseVariants(token))
                  => (~r.ok /\ r.error.type = "ValidationError")
            /\ r.ok => r.value \in {S_markdown, S_pdf, S_ppt}

C13_Witness ==
    /\ fn = "validate_format"
    /\ ret # <<>>
    /\ arg \in CaseVariants(S_markdown) \ {S_markdown, S_MARKDOWN}
    /\ ret[1].ok

\* C14 as stated: search returns a non-empty sequence or raises SearchError; it
\* raises SearchError when the wait times out and when no result can be parsed
\* from the backend output (here: the output holds no URL).
C14_ResultsOrSearchError ==
    (fn = "search" /\ ret # <<>>) =>
        LET r == ret[1]
        IN  /\ \/ r.ok /\ r.value # <<>>
               \/ ~r.ok /\ r.error.type = "SearchError"
            /\ arg.outcome = "timeout" => ~r.ok
            /\ (arg.outcome = "ok" /\ ~contains(arg.raw, S_http)) => ~r.ok

\* C14, amended: search returns a non-empty sequence or raises SearchError; it
\* raises SearchError when the wait times out, when the backend raised and when
\* the query is invalid; a backend output that holds no URL makes it return
\* exactly one placeholder result with url N/A instead of raising.
C14_PlaceholderInsteadOfError ==
    (fn = "search" /\ ret # <<>>) =>
        LET r == ret[1]
        IN  /\ \/ r.ok /\ r.value # <<>>
               \/ ~r.ok /\ r.error.type = "SearchError"
            /\ (arg.outcome # "ok" \/ strip(arg.query) = <<>>
                   \/ Len(arg.query) > MAX_QUERY_LEN) => ~r.ok
            /\ (arg.outcome = "ok" /\ ~contains(arg.raw, S_http) /\ strip(arg.query) # <<>>
                   /\ Len(arg.query) <= MAX_QUERY_LEN)
                  => (r.ok /\ Len(r.value) = 1 /\ r.value[1].url = S_NA)

C14_Witness ==
    /\ fn = "search"
    /\ ret # <<>>
    /\ arg.outcome = "ok"
    /\ ~contains(arg.raw, S_http)
    /\ ret[1].ok
    /\ ret[1].value[1].summary = arg.raw

\* the text read line by line: a URL line is a line that starts with http; a
\* segment is a URL line with the non-blank lines up to the next URL line
IsUrlLine(line) == startswith(strip(line), S_http)

RECURSIVE GroupLines(_, _)
GroupLines(lines, open) ==
    LET closed == IF open = <<>> THEN <<>> ELSE <<open>>
        line == strip(Head(lines))
    IN  IF lines = <<>> THEN closed
        ELSE IF IsUrlLine(line) THEN closed \o GroupLines(Tail(lines), <<line>>)
        ELSE IF open = <<>> \/ line = <<>> THEN GroupLines(Tail(lines), open)
        ELSE GroupLines(Tail(lines), Append(open, line))

SegmentsOf(text) == GroupLines(split(text, <<"\n">>), <<>>)
HasTitle(segment) == Len(segment) >= 2
ResultOf(segment) ==
    [title |-> segment[2], url |-> segment[1],
     summary |-> IF Len(segment) > 2 THEN join(SubSeq(segment, 3, Len(segment)), <<" ">>)
                 ELSE S_no_summary]
ExpectedResults(text) ==
    LET segments == SelectSeq(SegmentsOf(text), HasTitle)
    IN  [i \in 1..Len(segments) |-> ResultOf(segments[i])]
Fallback(text) == <<[title |-> S_search_results, url |-> S_NA, summary |-> text]>>
HttpOnlyAtLineStart(text) ==
    LET lines == split(text, <<"\n">>)
    IN  \A i \in 1..Len(lines) : Occurrences(strip(lines[i]), S_http) \subseteq {1}
\* the text is K >= 1 segments of URL line, title line, optional summary lines,
\* and only the URL lines hold a URL
WellFormed(text) ==
    LET lines == SelectSeq(split(text, <<"\n">>), NonBlank)
    IN  /\ lines # <<>>
        /\ IsUrlLine(lines[1])
        /\ HttpOnlyAtLineStart(text)
        /\ \A i \in 1..Len(SegmentsOf(text)) : HasTitle(SegmentsOf(text)[i])

\* C19 as stated: a text without URL marker gives exactly one fallback result
\* whose summary is the whole text; a text of K well-formed segments gives
\* exactly the K structured results, in input order.
C19_FallbackOrSegments ==
    (fn = "_parse_results" /\ ret # <<>>) =>
        /\ ~contains(arg, S_http) => ret[1] = Fallback(arg)
        /\ WellFormed(arg) => ret[1] = ExpectedResults(arg)

\* C19, amended: a text that holds the no-internet phrase gives the one fixed
\* notice; otherwise a text without http gives the one fallback result with the
\* whole text, and a text in which http occurs only at the start of lines gives
\* one result per URL line that is followed by a non-blank line, in input
\* order (the fallback result when there is no such URL line).
C19_ParseByUrlLines ==
    (fn = "_parse_results" /\ ret # <<>>) =>
        IF contains(arg, S_no_internet)
        THEN ret[1] = <<[title |-> S_no_internet_title, url |-> S_NA,
                         summary |-> S_no_internet_summary]>>
        ELSE /\ ~contains(arg, S_http) => ret[1] = Fallback(arg)
             /\ HttpOnlyAtLineStart(arg) =>
                   ret[1] = IF ExpectedResults(arg) = <<>> THEN Fallback(arg)
                            ELSE ExpectedResults(arg)

C19_Witness ==
    /\ fn = "_parse_results"
    /\ ret # <<>>
    /\ WellFormed(arg)
    /\ HttpOnlyAtLineStart(arg)
    /\ ~contains(arg, S_no_internet)
    /\ Len(ret[1]) = 2
    /\ ret[1][1].url # ret[1][2].url

\* C15: process_with_gemini raises LLMError, and no error of another type,
\* when the wait for the generation times out, when the backend returns an
\* empty response and when the backend raises, the connection test of the
\* client set-up included.
C15_OnlyLLMError ==
    (fn = "process_with_gemini" /\ ret # <<>>) =>
        LET r == ret[1]
        IN  /\ (arg.init # "ok" \/ arg.outcome # "ok" \/ arg.text = <<>>) => ~r.ok
            /\ ~r.ok => r.error.type = "LLMError"

\* the text starts and ends with a code fence
Wrapped(text) ==
    Len(text) >= 2 * Len(S_fence) /\ startswith(text, S_fence) /\ endswith(text, S_fence)
\* what is between the two fences, with and without the first line as the tag
\* and without a leading markdown tag
InnerTexts(text) ==
    LET body == SubSeq(text, Len(S_fence) + 1, Len(text) - Len(S_fence))
        lines == split(body, <<"\n">>)
    IN  {strip(body), strip(join(Tail(lines), <<"\n">>))}
            \cup (IF startswith(body, <<"m","a","r","k","d","o","w","n">>)
                  THEN {strip(SubSeq(body, 9, Len(body)))} ELSE {})

\* C20: the text process_with_gemini returns is, for a response wrapped in a
\* leading and a trailing code fence, the trimmed text between the fences
\* (without the language tag); for any other response it is the trimmed
\* response.
C20_FencesRemoved ==
    (fn = "process_with_gemini" /\ ret # <<>> /\ ret[1].ok) =>
        LET trimmed == strip(arg.text)
        IN  IF Wrapped(trimmed)
            THEN ret[1].value \in InnerTexts(trimmed)
            ELSE ret[1].value = trimmed

\* the rows a store_search_results call has made visible so far
NewRows == SubSeq(search_results, session.base + 1, Len(search_results))

\* C16: at every moment of a store_search_results call with N results, and
\* after it, the table shows either none or all N of its rows, each with the
\* query_id of the call: all N once the commit succeeded, none while the loop
\* runs and none after an insert or the commit failed.
C16_AllOrNothing ==
    session.state # "none" =>
        /\ Len(NewRows) \in {0, Len(session.results)}
        /\ \A i \in 1..Len(NewRows) : NewRows[i].query_id = session.query_id
        /\ session.state \in {"committed", "closed"} => Len(NewRows) = Len(session.results)
        /\ (session.state = "open" \/ session.failed \in {"add", "commit"})
              => NewRows = <<>>

C16_Witness ==
    /\ session.state = "open"
    /\ Len(session.results) = 2
    /\ Len(session.pending) = 1
    /\ NewRows = <<>>

\* C17: update_query_status leaves the SearchResult and GeneratedDocument rows
\* and the number of Query rows unchanged; it changes nothing but the status
\* column, and only of the Query with the given id; when no Query has that id
\* no row changes (and the call returns normally).
C17_UpdateChangesOnlyStatus ==
    [][(fn' = "update_query_status" /\ apiCalls' = apiCalls + 1) =>
          /\ UNCHANGED <<search_results, generated_documents>>
          /\ Len(user_queries') = Len(user_queries)
          /\ \A i \in DOMAIN user_queries :
                /\ user_queries[i].id # arg'.query_id => user_queries'[i] = user_queries[i]
                /\ [user_queries'[i] EXCEPT !.status = user_queries[i].status]
                      = user_queries[i]
                /\ (user_queries[i].id = arg'.query_id /\ ret' = <<"ok">>)
                      => user_queries'[i].status = arg'.status]_vars

C17_Witness ==
    /\ fn = "update_query_status"
    /\ ret = <<"ok">>
    /\ arg.query_id \notin QueryIds
    /\ user_queries # <<>>
    /\ search_results # <<>>

\* C18: the text of every result that search returned is what
\* store_search_results persisted as the snippet of its row and what the prompt
\* lists as its summary.
C18_SnippetPreserved ==
    (qid # 0 /\ results # <<>> /\ Cardinality(RowsOf(qid)) = Len(results)) =>
        \A j \in 1..Len(results) :
            /\ search_results[Len(search_results) - Len(results) + j].snippet
                  = results[j].summary
            /\ _create_prompt(results)[j].Summary = results[j].summary

\* C21: get_query_history(limit), when it returns, returns at most limit
\* different rows of user_queries, no row older than a row it leaves out,
\* ordered by created_at with the newest first, and leaves every table as it
\* was.
C21_HistoryNewestFirst ==
    [][(fn = "get_query_history" /\ ret = <<>> /\ ret' # <<>> /\ ret'[1].ok) =>
          LET h == ret'[1].value
          IN  /\ Len(h) <= arg
              /\ \A i \in DOMAIN h : \E k \in DOMAIN user_queries : h[i] = user_queries[k]
              /\ \A i, j \in DOMAIN h : i # j => h[i].id # h[j].id
              /\ \A i, j \in DOMAIN h : i < j => h[i].created_at >= h[j].created_at
              /\ \A k \in DOMAIN user_queries :
                    (\A i \in DOMAIN h : h[i].id # user_queries[k].id)
                        => /\ Len(h) = arg
                           /\ \A i \in DOMAIN h :
                                 h[i].created_at >= user_queries[k].created_at
              /\ UNCHANGED <<storeVars, disk>>]_vars

C21_Witness ==
    /\ fn = "get_query_history"
    /\ arg = 1
    /\ Len(user_queries) = 2
    /\ user_queries[1].created_at < user_queries[2].created_at
    /\ ret = <<Valid(<<user_queries[2]>>)>>

C24_VisibleWithPending ==
    [][\A i \in DOMAIN user_queries' :
          i \notin DOMAIN user_queries =>
              /\ user_queries'[i].status = "pending"
              /\ statusLog'[i] = <<"pending">>]_vars

C24_Witness ==
    /\ tx.state = "open"
    /\ tx.op = "log_user_query"
    /\ tx.todo = <<"refresh", "commit">>
    /\ Len(user_queries) = 1
    /\ StatusOf(1) = "pending"

\* the SearchResult rows of a Query that readers see, in order
StoredRows(id) == SelectSeq(search_results, LAMBDA row : row.query_id = id)
NoJobAwaited == \A p \in Pools : pool[p].queued + pool[p].running = 0

\* C25: the stages of a command run in the order search, generate, render:
\* when generation starts (the client is set up or the generation call is
\* made) the search has returned and its results are committed rows of the
\* Query, and when the render starts generation has returned content.
C25_StagesInOrder ==
    /\ (pc \in {"llm_init", "generate", "generate_wait", "render"}
          \/ calls.llm_test + calls.llm_generate + calls.render > 0)
        => /\ calls.search = 1
           /\ pool.executor.queued + pool.executor.running = 0
           /\ results # <<>>
           /\ StoredRows(qid) = store_search_results(<<>>, qid, results)
           /\ tx.state = "none"
    /\ (pc = "render" \/ calls.render > 0)
        => /\ calls.llm_generate = 1
           /\ NoJobAwaited
           /\ content # <<>>

C25_Witness ==
    /\ pc = "render"
    /\ Len(StoredRows(qid)) = 2
    /\ content # <<>>

\* C26: when the search backend call of a Query is started, processing is the
\* committed status of the Query and no transaction is open; a committed
\* status is never taken back, whatever happens later in the command.
C26_ProcessingCommittedBeforeSearch ==
    [][/\ calls'.search > calls.search =>
            /\ qid \in DOMAIN user_queries
            /\ StatusOf(qid) = "processing"
            /\ statusLog[qid] = <<"pending", "processing">>
            /\ tx.state = "none"
       /\ \A i \in DOMAIN statusLog :
            /\ i \in DOMAIN statusLog'
            /\ IsPrefix(statusLog[i], statusLog'[i])]_vars

C26_Witness ==
    /\ pc = "search_wait"
    /\ pool.executor.running = 1
    /\ StatusOf(qid) = "processing"

\* C27 as stated: no session is open while a backend call of the command is
\* in progress.
C27_NoTransactionDuringRemoteCall ==
    tx.state # "none" => \A p \in Pools : pool[p].queued + Busy(pool, p) = 0

\* C27, amended: no session is open while the command waits for a backend
\* call or is between two database operations: each database operation has
\* left its get_session block before the next backend call is started.  (A
\* backend call whose wait expired may still run while a later session is
\* open.)
C27_NoTransactionAcrossAwaitedCall ==
    /\ tx.state # "none" => (pc \in DbAwaits /\ NoJobAwaited)
    /\ pc \notin DbAwaits => tx.state = "none"

C27_Witness ==
    /\ pc = "generate_wait"
    /\ pool.default.running = 1
    /\ tx.state = "none"
    /\ StoredRows(qid) # <<>>

\* C28: a get_session block that raised has left the tables as they were
\* when it was entered, and a block whose body and commit did not raise has
\* made everything it wrote visible.
C28_CommitOrRollback ==
    /\ tx.state = "raised" => Committed = tx.snap
    /\ (tx.state = "open" /\ tx.todo = <<>>) => Committed = tx.view

\* C29: when the wait on the search worker expires, search raises SearchError
\* in that step and perform_web_search goes to its handler; no worker is
\* freed by the expiry (a job that runs keeps its worker), and a job whose
\* caller gave up ends without any effect on the command.
C29_TimeoutAbandonsOnlyTheWait ==
    [][/\ (pc = "search_wait" /\ pc' # "search_wait"
           /\ err'.msg = <<"Search timed out after 60 seconds">>)
          => /\ err'.type = "SearchError"
             /\ pc' = "set_failed"
             /\ Busy(pool', "executor") = Busy(pool, "executor")
             /\ pool.executor.running > 0 =>
                   pool'.executor.abandoned = pool.executor.abandoned + 1
       /\ \A p \in Pools :
             pool'[p].abandoned < pool[p].abandoned
                 => UNCHANGED <<cmdVars, storeVars, tx, proc>>]_vars

C29_Witness ==
    /\ pc = "done"
    /\ err.type = "SearchError"
    /\ pool.executor.abandoned = 1
    /\ StatusOf(qid) = "failed"

\* C30: at most 4 search and generation backend calls run at the same time in
\* the process.
C30_AtMostFourBackendCalls ==
    Busy(pool, "executor") + Busy(pool, "default") <= EXECUTOR_WORKERS

\* C33: the engine and the session factory are created at most once per
\* process: whatever setup_db, init_db and get_session calls were made, on
\* whatever event loop, at most one engine was ever created, the globals hold
\* that engine and the factory bound to it, every session came from that
\* factory, and once a database operation ran or a session was opened there
\* is exactly one engine.
C33_OneEngine ==
    /\ proc.engines <= 1
    /\ proc.engine = proc.engines
    /\ proc.async_session = proc.engine
    /\ \A i \in DOMAIN proc.sessions : proc.sessions[i].factory = proc.engine
    /\ (proc.sessions # <<>> \/ proc.ops # {}) => proc.engines = 1

\* sessions were opened under two event loops, after setup_db and init_db
\* had already run: all of them come from the one engine
C33_Witness ==
    /\ proc.engines = 1
    /\ Len(proc.sessions) >= 2
    /\ proc.sessions[1].loop # proc.sessions[2].loop
    /\ [loop |-> 1, engine_loop |-> 1] \in proc.ops

\* C36: every session that get_session opened has its close() awaited
\* exactly once, whether the body, the commit or the rollback raised or none
\* did: never twice, and once the block is left no session of the process is
\* still to be closed.
C36_ClosedExactlyOnce ==
    \A i \in DOMAIN proc.sessions :
        /\ proc.sessions[i].closes <= 1
        /\ (i < Len(proc.sessions) \/ proc.block = "none")
               => proc.sessions[i].closes = 1
        /\ (i = Len(proc.sessions) /\ proc.block # "none")
               => proc.sessions[i].closes = 0

\* one block was left after its commit and then its rollback raised, another
\* after nothing raised
C36_Witness ==
    /\ proc.block = "none"
    /\ Len(proc.sessions) = 2
    /\ proc.sessions[1].raised = {"commit", "rollback"}
    /\ proc.sessions[2].raised = {}
    /\ proc.sessions[1].closes = 1
    /\ proc.sessions[2].closes = 1

\* C37: every database operation of the process runs on the event loop that
\* was current when the shared engine was created; the engine is never used
\* under a later loop, after the loop it was created under has been closed.
C37_DbOnEngineLoop ==
    \A o \in proc.ops : o.loop = o.engine_loop

\* C38: log_user_query never fails because of the format name: when the
\* name, upper-cased, is no member of OutputFormat the Query is stored with
\* MARKDOWN (and with the named member otherwise), and the only error it can
\* raise is the database's; log_generated_document with the same unknown name
\* raises KeyError and stores no row.
C38_UnknownFormatFallsBack ==
    LET unknown == \A member \in OutputFormat : upper(arg) # member
    IN  /\ Len(ret) >= 1 => ret[1] \in {NoError, DbError}
        /\ (Len(ret) >= 1 /\ ret[1] = NoError) =>
              /\ Len(user_queries) = 1
              /\ user_queries[1].output_format =
                     IF unknown THEN S_MARKDOWN ELSE upper(arg)
        /\ (Len(ret) = 2 /\ unknown) =>
              /\ ret[2].type = "KeyError"
              /\ generated_documents = <<>>

\* both calls were made with "docx": the Query is stored as MARKDOWN, the
\* document call raised KeyError
C38_Witness ==
    /\ arg = S_docx
    /\ Len(ret) = 2
    /\ ret[1] = NoError
    /\ user_queries[1].output_format = S_MARKDOWN
    /\ ret[2].type = "KeyError"
    /\ generated_documents = <<>>

\* C35: validate_query is idempotent on accepted input: the text it returns
\* is accepted again and returned unchanged, so the validation that
\* CrewSearchEngine.search repeats on the validated query cannot fail.
C35_ValidateQueryIdempotent ==
    (fn = "validate_query" /\ ret # <<>> /\ ret[1].ok) =>
        /\ validate_query(ret[1].value).ok
        /\ validate_query(ret[1].value).value = ret[1].value
        /\ search(ret[1].value, "ok", BackendOutput(1)).ok

\* a query of the greatest accepted length that validate_query trimmed
C35_Witness ==
    /\ fn = "validate_query"
    /\ ret # <<>>
    /\ ret[1].ok
    /\ ret[1].value # arg
    /\ Len(arg) = MAX_QUERY_LEN

\* the pieces of a text between its URL markers, the first being what
\* precedes the first marker
SectionsOf(text) == split(text, S_http)
\* a segment that cannot be parsed: nothing but blank lines after its URL
Unparseable(section) ==
    LET parts == split(section, <<"\n">>)
    IN  \A k \in 2..Len(parts) : strip(parts[k]) = <<>>
\* the text without its i-th piece
WithoutSection(text, i) ==
    LET sections == SectionsOf(text)
    IN  join([k \in 1..(Len(sections) - 1) |->
                 IF k < i THEN sections[k] ELSE sections[k + 1]], S_http)

\* C32: _parse_results returns a non-empty list for every input, never an
\* error; a segment that cannot be parsed is dropped without changing what
\* is returned for the other segments (the result is the one of the input
\* without that segment), and when no segment parses exactly one fallback
\* result with url N/A is returned.
C32_ParseNeverEmpty ==
    (fn = "_parse_results" /\ ret # <<>>) =>
        LET out == ret[1]
            sections == SectionsOf(arg)
            segments == 2..Len(sections)
        IN  /\ Len(out) >= 1
            /\ \A k \in 1..Len(out) : DOMAIN out[k] = {"title", "url", "summary"}
            /\ ~contains(arg, S_no_internet) =>
                  \A i \in segments :
                     (/\ Unparseable(sections[i])
                      /\ \E j \in segments : ~Unparseable(sections[j]))
                        => _parse_results(WithoutSection(arg, i)) = out
            /\ (\A i \in segments : Unparseable(sections[i])) =>
                  /\ Len(out) = 1
                  /\ out[1].url = S_NA

\* a segment without title stood between two segments that were parsed
C32_Witness ==
    /\ fn = "_parse_results"
    /\ ret # <<>>
    /\ Len(SectionsOf(arg)) = 4
    /\ ~Unparseable(SectionsOf(arg)[2])
    /\ Unparseable(SectionsOf(arg)[3])
    /\ ~Unparseable(SectionsOf(arg)[4])
    /\ Len(ret[1]) = 2
    /\ ret[1][1].url # S_NA

\* C31: every call that process_with_gemini makes to the LLM backend is run
\* off the event loop and is covered by the 300 second timeout: the loop
\* thread is never inside a backend call, and no backend call keeps the
\* pipeline waiting for more than the timeout.
C31_LlmCallsOffLoopWithinTimeout ==
    /\ proc.on_loop = "none"
    /\ ~proc.late

\* the awaits of perform_web_search that write a status
StatusWrites == {"set_processing", "set_completed", "set_failed"}
\* where the command is while perform_web_search has neither returned nor raised
InsideSearch == {"start", "init_db", "log_query", "set_processing", "search",
                 "search_wait", "store", "set_completed", "set_failed"}

\* C34: once perform_web_search has returned or raised, and no status write
\* was refused by the database, the stored status of the Query it created is
\* completed or failed, also when the search stage was interrupted by a
\* cancellation or a keyboard interrupt.
C34_TerminalWhenSearchEnds ==
    (qid # 0 /\ pc \notin InsideSearch /\ faults \cap StatusWrites = {})
        => StatusOf(qid) \in Terminal

====
